---------------------------- MODULE Spec2Model ----------------------------
(***************************************************************************)
(* Model of laonix/pow-word-of-wisdom: the Hashcash codec and engine       *)
(* (pow/hashcash.go), the proof-of-work handler (handler/pow.go) and the   *)
(* shared hasher used by concurrent verifications.                         *)
(*                                                                         *)
(* Strings are sequences of bytes (ASCII codes).  int64 and uint values    *)
(* are kept as decimal digit sequences, so that the 64-bit limits of       *)
(* strconv.ParseInt, the int -> uint conversion and the wrap of counter++  *)
(* are those of the code.                                                  *)
(***************************************************************************)
EXTENDS Integers, Sequences, FiniteSets, TLC

VARIABLES
  \* --- engine harness: one Calculate followed by one Verify -------------
  ppc,        \* position: "idle" | "calc" | "mine" | "verify" | "done" |
              \*   "panic"
  challengeIn,\* the challenge header string handed to Calculate and Verify
  header,     \* Calculate's local *Header (NoHeader before the parse)
  calcRes,    \* Calculate's return value [str, err]
  verRes,     \* Verify's return value [ok, err]
  iters,      \* number of counter++ executed by the mining loop
  \* --- one accepted connection served by ProofOfWork.ServeTCP ------------
  pc,         \* ServeTCP: "read" (line 69) | "select" (line 102) |
              \*   "handler" (inside h.handler.ServeTCP, line 131) |
              \*   "ret73" | "ret107" | "ret115" | "ret121" | "ret132"
              \*   (returned at that line) | "panic" (the process crashed)
  vpc,        \* getVerificationResult: "none" | "read" (line 143) |
              \*   "send" (blocked in v <- ..., line 150 or 165) | "done"
  qpc,        \* getQuoteResult: "none" | "quote" | "send" | "done"
  logger,     \* the Logger wired in: "zap" (cmd/server) or "mock" (tests)
  complexity, \* ProofOfWork.complexity
  cancelled,  \* the ambient ctx is done
  expired,    \* the waitPOW deadline of timeOut has passed
  powBits,    \* ServeTCP's bits, -1 before line 82
  issued,     \* ServeTCP's challenge and err after line 87: [str, err]
  vres,       \* the verificationResult the goroutine is sending
  vrecv,      \* ServeTCP's v, the result it received (err "none": none)
  qres,       \* the quoteResult the quote goroutine is sending
  writes,     \* the Write calls made on the connection, in order
  closes,     \* the Close calls made on the connection, in order (by whom)
  handlerCalls, \* number of calls of the downstream handler's ServeTCP
  \* --- concurrent Calculate/Verify invocations on the package's hasher ----
  hasher,     \* the package variable hasher: the bytes written since Reset
  calls,      \* per invocation: [kind, pc, h, wrote, hash, tries, ok]
  \* --- one call of a function of package pow on given arguments ----------
  fn,         \* the function called: "none" | "checkBits" | "String" | "Verify"
  arg,        \* its arguments
  ret,        \* its return value, with done = FALSE before it returned
  \* --- the accept loop of Server.ListenAndServe --------------------------
  lpc,        \* ListenAndServe: "idle" | "select" (line 59) | "accept"
              \*   (inside l.Accept, line 75) | "accepted" (line 76) |
              \*   "returned"
  lacc,       \* what l.Accept returned: "none" | "conn" | "timeout" (an
              \*   error for which os.IsTimeout holds) | "error" (another)
  lret,       \* ListenAndServe's return value: "none" before it returns,
              \*   "nil", "set TCP listener deadline", "accept connection"
  lcancelled, \* the lifetime ctx is done
  lclosed,    \* number of calls of l.Close
  handlers,   \* per accepted connection, in order: its ServeTCP goroutine
              \*   is "running" or has "returned"
  lafter,     \* number of l.Accept calls that returned after the ctx was done
  hafter      \* number of handlers started after the ctx was done

powVars == <<ppc, challengeIn, header, calcRes, verRes, iters>>

orchVars == <<pc, vpc, qpc, logger, complexity, cancelled, expired, powBits,
              issued, vres, vrecv, qres, writes, closes, handlerCalls>>

hashVars == <<hasher, calls>>

fnVars == <<fn, arg, ret>>

lsnVars == <<lpc, lacc, lret, lcancelled, lclosed, handlers, lafter,
             hafter>>

vars == <<powVars, orchVars, hashVars, fnVars, lsnVars>>

-----------------------------------------------------------------------------
(* Decimal digit sequences (most significant digit first, no leading zero). *)

RECURSIVE StripZeros(_)
StripZeros(d) ==
  IF Len(d) > 1 /\ Head(d) = 0 THEN StripZeros(Tail(d)) ELSE d

RECURSIVE LexLess(_, _)
LexLess(a, b) ==
  IF a = <<>> THEN FALSE
  ELSE IF Head(a) # Head(b) THEN Head(a) < Head(b)
  ELSE LexLess(Tail(a), Tail(b))

DecLess(a, b) ==
  \/ Len(a) < Len(b)
  \/ Len(a) = Len(b) /\ LexLess(a, b)

RECURSIVE DecInc(_)
DecInc(a) ==
  IF a = <<>> THEN <<1>>
  ELSE LET n == Len(a) IN
       IF a[n] < 9 THEN [a EXCEPT ![n] = a[n] + 1]
       ELSE Append(DecInc(SubSeq(a, 1, n - 1)), 0)

RECURSIVE DecDecRaw(_)
DecDecRaw(a) ==
  LET n == Len(a) IN
  IF a[n] > 0 THEN [a EXCEPT ![n] = a[n] - 1]
  ELSE Append(DecDecRaw(SubSeq(a, 1, n - 1)), 9)

DecDec(a) == StripZeros(DecDecRaw(a))

PadTo(a, n) ==
  [i \in 1..n |-> IF i <= n - Len(a) THEN 0 ELSE a[i - (n - Len(a))]]

RECURSIVE SubRaw(_, _, _, _)
SubRaw(a, b, i, borrow) ==
  IF i = 0 THEN <<>>
  ELSE LET d == a[i] - b[i] - borrow IN
       IF d < 0 THEN Append(SubRaw(a, b, i - 1, 1), d + 10)
       ELSE Append(SubRaw(a, b, i - 1, 0), d)

\* a - b for a >= b
DecSub(a, b) == StripZeros(SubRaw(a, PadTo(b, Len(a)), Len(a), 0))

RECURSIVE ToNat(_)
ToNat(d) ==
  IF d = <<>> THEN 0 ELSE ToNat(SubSeq(d, 1, Len(d) - 1)) * 10 + d[Len(d)]

RECURSIVE NatDigits(_)
NatDigits(n) ==
  IF n < 10 THEN <<n>> ELSE Append(NatDigits(n \div 10), n % 10)

MaxInt64 == <<9,2,2,3,3,7,2,0,3,6,8,5,4,7,7,5,8,0,7>>
MinInt64Mag == <<9,2,2,3,3,7,2,0,3,6,8,5,4,7,7,5,8,0,8>>
MaxUint64 == <<1,8,4,4,6,7,4,4,0,7,3,7,0,9,5,5,1,6,1,5>>
TwoPow64 == <<1,8,4,4,6,7,4,4,0,7,3,7,0,9,5,5,1,6,1,6>>

\* a signed value: [neg, mag]; zero is never negative
Int64(neg, mag) == [neg |-> neg /\ mag # <<0>>, mag |-> mag]

ToAscii(d) == [i \in 1..Len(d) |-> 48 + d[i]]

-----------------------------------------------------------------------------
(* strconv *)

\* strconv.FormatInt(v, 10)
FormatInt(v) == IF v.neg THEN <<45>> \o ToAscii(v.mag) ELSE ToAscii(v.mag)

\* strconv.ParseInt(s, 10, 64), which strconv.Atoi equals on a 64-bit build:
\* an optional sign, then one or more decimal digits, within the int64 range.
ParseInt(s) ==
  LET signed == s # <<>> /\ Head(s) \in {43, 45}
      neg    == s # <<>> /\ Head(s) = 45
      body   == IF signed THEN Tail(s) ELSE s
  IN  IF body = <<>> \/ \E i \in 1..Len(body) : body[i] \notin 48..57
        THEN [err |-> "syntax", val |-> Int64(FALSE, <<0>>)]
      ELSE LET mag == StripZeros([i \in 1..Len(body) |-> body[i] - 48]) IN
           IF (~neg /\ DecLess(MaxInt64, mag)) \/ (neg /\ DecLess(MinInt64Mag, mag))
             THEN [err |-> "range", val |-> Int64(FALSE, <<0>>)]
           ELSE [err |-> "nil", val |-> Int64(neg, mag)]

Atoi(s) == ParseInt(s)

\* the conversion uint(int) of a 64-bit build: negative values wrap
ToUint(v) == IF v.neg THEN DecSub(TwoPow64, v.mag) ELSE v.mag

-----------------------------------------------------------------------------
(* encoding/base64, StdEncoding *)

B64Char(i) ==
  IF i < 26 THEN 65 + i
  ELSE IF i < 52 THEN 97 + (i - 26)
  ELSE IF i < 62 THEN 48 + (i - 52)
  ELSE IF i = 62 THEN 43 ELSE 47

B64Index(c) ==
  IF c \in 65..90 THEN c - 65
  ELSE IF c \in 97..122 THEN c - 97 + 26
  ELSE IF c \in 48..57 THEN c - 48 + 52
  ELSE IF c = 43 THEN 62
  ELSE IF c = 47 THEN 63
  ELSE -1

RECURSIVE EncodeToString(_)
EncodeToString(b) ==
  IF b = <<>> THEN <<>>
  ELSE IF Len(b) = 1 THEN
    <<B64Char(b[1] \div 4), B64Char((b[1] % 4) * 16), 61, 61>>
  ELSE IF Len(b) = 2 THEN
    <<B64Char(b[1] \div 4), B64Char((b[1] % 4) * 16 + b[2] \div 16),
      B64Char((b[2] % 16) * 4), 61>>
  ELSE
    <<B64Char(b[1] \div 4), B64Char((b[1] % 4) * 16 + b[2] \div 16),
      B64Char((b[2] % 16) * 4 + b[3] \div 64), B64Char(b[3] % 64)>>
    \o EncodeToString(SubSeq(b, 4, Len(b)))

\* DecodeString skips '\r' and '\n'
NotNewline(c) == c \notin {10, 13}
StripNewlines(s) == SelectSeq(s, NotNewline)

\* one quantum of four characters; "=" padding only closes the last one
DecodeQuantum(q, last) ==
  LET i1 == B64Index(q[1])
      i2 == B64Index(q[2])
      i3 == B64Index(q[3])
      i4 == B64Index(q[4])
  IN  IF i1 < 0 \/ i2 < 0 THEN [err |-> TRUE, bytes |-> <<>>]
      ELSE IF q[3] = 61 THEN
        IF last /\ q[4] = 61
          THEN [err |-> FALSE, bytes |-> <<i1 * 4 + i2 \div 16>>]
          ELSE [err |-> TRUE, bytes |-> <<>>]
      ELSE IF i3 < 0 THEN [err |-> TRUE, bytes |-> <<>>]
      ELSE IF q[4] = 61 THEN
        IF last
          THEN [err |-> FALSE,
                bytes |-> <<i1 * 4 + i2 \div 16, (i2 % 16) * 16 + i3 \div 4>>]
          ELSE [err |-> TRUE, bytes |-> <<>>]
      ELSE IF i4 < 0 THEN [err |-> TRUE, bytes |-> <<>>]
      ELSE [err |-> FALSE,
            bytes |-> <<i1 * 4 + i2 \div 16, (i2 % 16) * 16 + i3 \div 4,
                        (i3 % 4) * 64 + i4>>]

RECURSIVE DecodeQuanta(_)
DecodeQuanta(s) ==
  IF s = <<>> THEN [err |-> FALSE, bytes |-> <<>>]
  ELSE IF Len(s) < 4 THEN [err |-> TRUE, bytes |-> <<>>]
  ELSE LET q    == DecodeQuantum(SubSeq(s, 1, 4), Len(s) = 4)
           rest == DecodeQuanta(SubSeq(s, 5, Len(s)))
       IN  IF q.err \/ rest.err THEN [err |-> TRUE, bytes |-> <<>>]
           ELSE [err |-> FALSE, bytes |-> q.bytes \o rest.bytes]

DecodeString(s) == DecodeQuanta(StripNewlines(s))


-----------------------------------------------------------------------------
(* timefmt.Parse(date, "%y%m%d%H%M"): five numbers of at most two digits    *)
(* each, at least one digit each, read greedily; nothing may be left over.  *)

\* parseNumber: the index after the number that starts at j (j itself: none)
ParseNumber(s, j) ==
  IF j <= Len(s) /\ s[j] \in 48..57
    THEN IF j + 1 <= Len(s) /\ s[j + 1] \in 48..57 THEN j + 2 ELSE j + 1
    ELSE j

RECURSIVE ParseNumbers(_, _, _)
ParseNumbers(s, j, n) ==
  IF n = 0 THEN j = Len(s) + 1
  ELSE LET k == ParseNumber(s, j) IN k # j /\ ParseNumbers(s, k, n - 1)

\* TRUE iff timefmt.Parse returns no error
ParseDate(date) == ParseNumbers(date, 1, 5)

-----------------------------------------------------------------------------
(* Header, Header.String, ParseHeaderString *)

NoHeader == [version |-> 0, bits |-> <<0>>, date |-> <<>>, resource |-> <<>>,
             random |-> <<>>, counter |-> Int64(FALSE, <<0>>)]

Version == 1

\* strings.Split(s, ":"): the fields between the colons, in order
Split(s) ==
  LET colons == { i \in 1..Len(s) : s[i] = 58 }
      n      == Cardinality(colons)
      Pos(k) == IF k = 0 THEN 0
                ELSE IF k = n + 1 THEN Len(s) + 1
                ELSE CHOOSE p \in colons :
                       Cardinality({ q \in colons : q < p }) = k - 1
  IN  [k \in 1..(n + 1) |-> SubSeq(s, Pos(k - 1) + 1, Pos(k) - 1)]

\* Header.String with the counter's decimal text not base-64 encoded
StringPlainCounter(h) ==
  ToAscii(NatDigits(Version)) \o <<58>> \o ToAscii(h.bits) \o <<58>> \o h.date
    \o <<58>> \o h.resource \o <<58, 58>> \o h.random \o <<58>>
    \o FormatInt(h.counter)

\* Header.String: "%d:%d:%s:%s::%s:%s" of Version (the constant, not the
\* field), bits, date, resource, random and the base-64 text of the counter
String(h) ==
  ToAscii(NatDigits(Version)) \o <<58>> \o ToAscii(h.bits) \o <<58>> \o h.date
    \o <<58>> \o h.resource \o <<58, 58>> \o h.random \o <<58>>
    \o EncodeToString(FormatInt(h.counter))

\* ParseHeaderString reporting a version that is not an integer as an
\* unsupported version
ParseHeaderStringOneVersionError(s) ==
  LET split   == Split(s)
      version == Atoi(split[1])
      bits    == Atoi(split[2])
      b       == DecodeString(split[7])
      counter == ParseInt(b.bytes)
      Fail(e) == [err |-> e, h |-> NoHeader]
  IN  IF Len(split) # 7 THEN Fail("malformed header string")
      ELSE IF version.err # "nil" THEN Fail("unsupported version")
      ELSE IF version.val # Int64(FALSE, NatDigits(Version))
        THEN Fail("unsupported version")
      ELSE IF bits.err # "nil" THEN Fail("convert bits to int")
      ELSE IF ~ParseDate(split[3]) THEN Fail("parse date")
      ELSE IF b.err THEN Fail("decode counter")
      ELSE IF counter.err # "nil" THEN Fail("convert counter to int")
      ELSE [err |-> "nil",
            h   |-> [version  |-> Version,
                     bits     |-> ToUint(bits.val),
                     date     |-> split[3],
                     resource |-> split[4],
                     random   |-> split[6],
                     counter  |-> counter.val]]

\* ParseHeaderString: [err, h]; err names the failing step, "nil" when none
ParseHeaderString(s) ==
  LET split   == Split(s)
      version == Atoi(split[1])
      bits    == Atoi(split[2])
      b       == DecodeString(split[7])
      counter == ParseInt(b.bytes)
      Fail(e) == [err |-> e, h |-> NoHeader]
  IN  IF Len(split) # 7 THEN Fail("malformed header string")
      ELSE IF version.err # "nil" THEN Fail("convert version to int")
      ELSE IF version.val # Int64(FALSE, NatDigits(Version))
        THEN Fail("unsupported version")
      ELSE IF bits.err # "nil" THEN Fail("convert bits to int")
      ELSE IF ~ParseDate(split[3]) THEN Fail("parse date")
      ELSE IF b.err THEN Fail("decode counter")
      ELSE IF counter.err # "nil" THEN Fail("convert counter to int")
      ELSE [err |-> "nil",
            h   |-> [version  |-> Version,
                     bits     |-> ToUint(bits.val),
                     date     |-> split[3],
                     resource |-> split[4],
                     random   |-> split[6],
                     counter  |-> counter.val]]

\* header.counter++ on an int64: the successor, wrapping at the maximum
CounterInc(c) ==
  IF c.neg THEN Int64(TRUE, DecDec(c.mag))
  ELSE IF c.mag = MaxInt64 THEN Int64(TRUE, MinInt64Mag)
  ELSE Int64(FALSE, DecInc(c.mag))

-----------------------------------------------------------------------------
(* The shared hasher (crypto/sha256) and getHash.                           *)
(*                                                                          *)
(* The state of the hasher is the bytes written since its last Reset; Sum   *)
(* is a function of those bytes alone.  SHA-256 itself is library code: it  *)
(* is represented by Sha256 below, a deterministic 32-byte digest of the    *)
(* whole message whose number of leading zero bits ranges over 0 ..         *)
(* HashStates - 1, so that both outcomes of the bit test occur for the      *)
(* small targets that the bounds allow.                                     *)

\* bound: number of distinct digests the model's hash function produces
HashStates == 24

\* length of a SHA-256 digest in bytes (sha256.Size)
DigestLen == 32

RECURSIVE Pow2(_)
Pow2(n) == IF n = 0 THEN 1 ELSE 2 * Pow2(n - 1)

\* the sum over positions lo..hi of the bytes, each weighted by its position
RECURSIVE HashSum(_, _, _)
HashSum(msg, lo, hi) ==
  IF lo > hi THEN 0
  ELSE IF lo = hi THEN msg[lo] * (1 + ((lo * 5) % 11))
  ELSE LET mid == (lo + hi) \div 2
       IN  HashSum(msg, lo, mid) + HashSum(msg, mid + 1, hi)

HashFold(msg) == (7 + HashSum(msg, 1, Len(msg))) % HashStates

Sha256(msg) ==
  LET f == HashFold(msg)
  IN  [k \in 1..DigestLen |->
         IF 8 * k <= f THEN 0
         ELSE IF 8 * (k - 1) <= f
           THEN LET low == 7 - (f - 8 * (k - 1))
                IN  Pow2(low) + ((f * 7 + k) % Pow2(low))
         ELSE (f * 37 + k * 11) % 256]

HasherReset == <<>>
HasherWrite(state, bytes) == state \o bytes
HasherSum(state) == Sha256(state)

\* getHash(header, hasher) run without interference: Reset, Write, Sum(nil)
getHash(headerStr) == HasherSum(HasherWrite(HasherReset, headerStr))

-----------------------------------------------------------------------------
(* checkBits *)

\* the switch of checkBits with case 7 accepting b <= 2
ByteLimitOffByOne(modulo) == <<127, 63, 31, 15, 7, 3, 2>>[modulo]

\* the switch of checkBits: the largest byte accepted for modulo 1..7
ByteLimit(modulo) == <<127, 63, 31, 15, 7, 3, 1>>[modulo]

\* bits as a number when it is below 10^9; any larger value exceeds the
\* capacity of the digest slice just as 10^9 does
BitsNat(bits) == IF Len(bits) > 9 THEN 1000000000 ELSE ToNat(bits)

\* checkBits panics: hash[:quotient] beyond the slice's capacity, or
\* hash[quotient] beyond its length once the loop found no non-zero byte
checkBitsPanics(hash, bits) ==
  LET modulo   == BitsNat(bits) % 8
      quotient == BitsNat(bits) \div 8
  IN  \/ quotient > Len(hash)
      \/ /\ \A i \in 1..quotient : hash[i] = 0
         /\ modulo > 0
         /\ quotient >= Len(hash)

\* checkBits when it does not panic
checkBits(hash, bits) ==
  LET modulo   == BitsNat(bits) % 8
      quotient == BitsNat(bits) \div 8
  IN  /\ \A i \in 1..quotient : hash[i] = 0
      /\ modulo > 0 => hash[quotient + 1] <= ByteLimit(modulo)

-----------------------------------------------------------------------------
(* Verify *)

\* Verify with the digest taken of the challenge header, not of the result
VerifyHashesChallenge(calculated, challenge) ==
  LET calculatedHeader == ParseHeaderString(calculated)
      challengeHeader  == ParseHeaderString(challenge)
      c == calculatedHeader.h
      d == challengeHeader.h
      calculatedHash == getHash(String(d))
      Ret(ok, err) == [ok |-> ok, err |-> err, panic |-> FALSE]
  IN  IF calculatedHeader.err # "nil"
        THEN Ret(FALSE, "parse calculated header string")
      ELSE IF challengeHeader.err # "nil"
        THEN Ret(FALSE, "parse challenge header string")
      ELSE IF \/ c.version # d.version
              \/ c.bits # d.bits
              \/ c.date # d.date
              \/ c.resource # d.resource
              \/ c.random # d.random
        THEN Ret(FALSE, "calculated header doesn't match the challenge")
      ELSE IF checkBitsPanics(calculatedHash, c.bits)
        THEN [ok |-> FALSE, err |-> "nil", panic |-> TRUE]
      ELSE IF ~checkBits(calculatedHash, c.bits) THEN Ret(FALSE, "nil")
      ELSE Ret(TRUE, "nil")

\* Verify that does not compare the resource
VerifyIgnoresResource(calculated, challenge) ==
  LET calculatedHeader == ParseHeaderString(calculated)
      challengeHeader  == ParseHeaderString(challenge)
      c == calculatedHeader.h
      d == challengeHeader.h
      calculatedHash == getHash(String(c))
      Ret(ok, err) == [ok |-> ok, err |-> err, panic |-> FALSE]
  IN  IF calculatedHeader.err # "nil"
        THEN Ret(FALSE, "parse calculated header string")
      ELSE IF challengeHeader.err # "nil"
        THEN Ret(FALSE, "parse challenge header string")
      ELSE IF \/ c.version # d.version
              \/ c.bits # d.bits
              \/ c.date # d.date
              \/ c.random # d.random
        THEN Ret(FALSE, "calculated header doesn't match the challenge")
      ELSE IF checkBitsPanics(calculatedHash, c.bits)
        THEN [ok |-> FALSE, err |-> "nil", panic |-> TRUE]
      ELSE IF ~checkBits(calculatedHash, c.bits) THEN Ret(FALSE, "nil")
      ELSE Ret(TRUE, "nil")

\* Verify that reports a digest failing the bit test as an error
VerifyErrorOnBadDigest(calculated, challenge) ==
  LET calculatedHeader == ParseHeaderString(calculated)
      challengeHeader  == ParseHeaderString(challenge)
      c == calculatedHeader.h
      d == challengeHeader.h
      calculatedHash == getHash(String(c))
      Ret(ok, err) == [ok |-> ok, err |-> err, panic |-> FALSE]
  IN  IF calculatedHeader.err # "nil"
        THEN Ret(FALSE, "parse calculated header string")
      ELSE IF challengeHeader.err # "nil"
        THEN Ret(FALSE, "parse challenge header string")
      ELSE IF \/ c.version # d.version
              \/ c.bits # d.bits
              \/ c.date # d.date
              \/ c.resource # d.resource
              \/ c.random # d.random
        THEN Ret(FALSE, "calculated header doesn't match the challenge")
      ELSE IF checkBitsPanics(calculatedHash, c.bits)
        THEN [ok |-> FALSE, err |-> "nil", panic |-> TRUE]
      ELSE IF ~checkBits(calculatedHash, c.bits)
        THEN Ret(FALSE, "insufficient leading zero bits")
      ELSE Ret(TRUE, "nil")

\* Verify that parses the challenge before the calculated header
VerifyParsesChallengeFirst(calculated, challenge) ==
  LET calculatedHeader == ParseHeaderString(calculated)
      challengeHeader  == ParseHeaderString(challenge)
      c == calculatedHeader.h
      d == challengeHeader.h
      calculatedHash == getHash(String(c))
      Ret(ok, err) == [ok |-> ok, err |-> err, panic |-> FALSE]
  IN  IF challengeHeader.err # "nil"
        THEN Ret(FALSE, "parse challenge header string")
      ELSE IF calculatedHeader.err # "nil"
        THEN Ret(FALSE, "parse calculated header string")
      ELSE IF \/ c.version # d.version
              \/ c.bits # d.bits
              \/ c.date # d.date
              \/ c.resource # d.resource
              \/ c.random # d.random
        THEN Ret(FALSE, "calculated header doesn't match the challenge")
      ELSE IF checkBitsPanics(calculatedHash, c.bits)
        THEN [ok |-> FALSE, err |-> "nil", panic |-> TRUE]
      ELSE IF ~checkBits(calculatedHash, c.bits) THEN Ret(FALSE, "nil")
      ELSE Ret(TRUE, "nil")

\* Verify(calculated, challenge): [ok, err, panic]
Verify(calculated, challenge) ==
  LET calculatedHeader == ParseHeaderString(calculated)
      challengeHeader  == ParseHeaderString(challenge)
      c == calculatedHeader.h
      d == challengeHeader.h
      calculatedHash == getHash(String(c))
      Ret(ok, err) == [ok |-> ok, err |-> err, panic |-> FALSE]
  IN  IF calculatedHeader.err # "nil"
        THEN Ret(FALSE, "parse calculated header string")
      ELSE IF challengeHeader.err # "nil"
        THEN Ret(FALSE, "parse challenge header string")
      ELSE IF \/ c.version # d.version
              \/ c.bits # d.bits
              \/ c.date # d.date
              \/ c.resource # d.resource
              \/ c.random # d.random
        THEN Ret(FALSE, "calculated header doesn't match the challenge")
      ELSE IF checkBitsPanics(calculatedHash, c.bits)
        THEN [ok |-> FALSE, err |-> "nil", panic |-> TRUE]
      ELSE IF ~checkBits(calculatedHash, c.bits) THEN Ret(FALSE, "nil")
      ELSE Ret(TRUE, "nil")

-----------------------------------------------------------------------------
(* Engine harness: Calculate(challengeIn), then Verify of its result        *)
(* against the same challenge.  One step of CalcMine is one iteration of    *)
(* the mining loop.                                                         *)

\* bound: largest bits value of the harness's challenges
MaxBits == 5

\* bound: iterations of the mining loop that the harness follows
MaxIters == 6

MkHeader(version, bits, date, resource, ext, random, counter) ==
  version \o <<58>> \o bits \o <<58>> \o date \o <<58>> \o resource \o <<58>>
    \o ext \o <<58>> \o random \o <<58>> \o counter

\* "2208082121" and the nine-digit "220808212"
DateTexts == { <<50,50,48,56,48,56,50,49,50,49>>, <<50,50,48,56,48,56,50,49,50>> }

\* "r" and the empty resource
ResourceTexts == { <<114>>, <<>> }

\* "cRvZ"
RandomText == <<99,82,118,90>>

\* decimal texts of the counter: "0", "-1", "41", "+7", "007",
\* "9223372036854775807" (the next counter++ wraps)
CounterTexts ==
  { <<48>>, <<45,49>>, <<52,49>>, <<43,55>>, <<48,48,55>>, ToAscii(MaxInt64) }

ValidChallenges ==
  { MkHeader(<<49>>, ToAscii(NatDigits(b)), d, r, <<>>, RandomText,
             EncodeToString(c)) :
      b \in 0..MaxBits, d \in DateTexts, r \in ResourceTexts, c \in CounterTexts }
  \cup
  \* version "+1", bits "03", a non-empty extension "x"
  { MkHeader(<<43,49>>, <<48,51>>, <<50,50,48,56,48,56,50,49,50,49>>, <<114>>,
             <<120>>, RandomText, EncodeToString(<<53>>)) }

\* "corrupted", and a header of version 2
InvalidChallenges ==
  { <<99,111,114,114,117,112,116,101,100>>,
    MkHeader(<<50>>, <<49>>, <<50,50,48,56,48,56,50,49,50,49>>, <<114>>, <<>>,
             RandomText, EncodeToString(<<53>>)) }

\* accepted by ParseHeaderString, with bits beyond the digest: "264", "-1"
LargeBitsChallenges ==
  { MkHeader(<<49>>, b, <<50,50,48,56,48,56,50,49,50,49>>, <<114>>, <<>>,
             RandomText, EncodeToString(<<53>>)) :
      b \in { <<50,54,52>>, <<45,49>> } }

\* the connection while the engine harness runs: nothing is served
OrchIdle ==
  /\ pc = "idle" /\ vpc = "none" /\ qpc = "none"
  /\ logger = "mock" /\ complexity = 0
  /\ cancelled = FALSE /\ expired = FALSE
  /\ powBits = -1
  /\ issued = [str |-> <<>>, err |-> "none"]
  /\ vres = [ok |-> FALSE, header |-> <<>>, err |-> "none"]
  /\ vrecv = [ok |-> FALSE, header |-> <<>>, err |-> "none"]
  /\ qres = [quote |-> <<>>, err |-> "none"]
  /\ writes = <<>> /\ closes = <<>>
  /\ handlerCalls = 0

\* the package's hasher while no concurrent invocations are modelled
HashIdle ==
  /\ hasher = <<>>
  /\ calls = <<>>

\* no single function call is followed
FnIdle ==
  /\ fn = "none"
  /\ arg = <<>>
  /\ ret = [done |-> FALSE]

\* no listener is followed
LsnIdle ==
  /\ lpc = "idle"
  /\ lacc = "none"
  /\ lret = "none"
  /\ lcancelled = FALSE
  /\ lclosed = 0
  /\ handlers = <<>>
  /\ lafter = 0
  /\ hafter = 0

PowInit ==
  /\ OrchIdle
  /\ HashIdle
  /\ LsnIdle
  /\ FnIdle
  /\ ppc = "calc"
  /\ challengeIn \in ValidChallenges \cup LargeBitsChallenges \cup InvalidChallenges
  /\ header = NoHeader
  /\ calcRes = [str |-> <<>>, err |-> "none"]
  /\ verRes = [ok |-> FALSE, err |-> "none", panic |-> FALSE]
  /\ iters = 0

\* Calculate, lines 135-140: parse the challenge
CalcParse ==
  /\ ppc = "calc"
  /\ LET p == ParseHeaderString(challengeIn) IN
       IF p.err # "nil"
         THEN /\ calcRes' = [str |-> <<>>, err |-> "parse header string"]
              /\ ppc' = "done"
              /\ UNCHANGED header
         ELSE /\ header' = p.h
              /\ ppc' = "mine"
              /\ UNCHANGED calcRes
  /\ UNCHANGED <<challengeIn, verRes, iters, orchVars, hashVars, fnVars, lsnVars>>

\* what one iteration of the loop decides: "panic", "retry" or "return"
MineOutcome(h) ==
  LET calculatedHash == getHash(String(h)) IN
  IF checkBitsPanics(calculatedHash, h.bits) THEN "panic"
  ELSE IF ~checkBits(calculatedHash, h.bits) THEN "retry"
  ELSE "return"

\* CalcMine whose retry advances the counter by two
CalcMineSkipsACounter ==
  /\ ppc = "mine"
  /\ LET o == MineOutcome(header) IN
       \/ /\ o = "panic"
          /\ ppc' = "panic"
          /\ UNCHANGED <<header, calcRes, iters>>
       \/ /\ o = "retry"
          /\ iters < MaxIters
          /\ header' = [header EXCEPT
               !.counter = CounterInc(CounterInc(header.counter))]
          /\ iters' = iters + 1
          /\ UNCHANGED <<ppc, calcRes>>
       \/ /\ o = "return"
          /\ calcRes' = [str |-> String(header), err |-> "nil"]
          /\ ppc' = "verify"
          /\ UNCHANGED <<header, iters>>
  /\ UNCHANGED <<challengeIn, verRes, orchVars, hashVars, fnVars, lsnVars>>

\* CalcMine whose retry also stamps the header with the date "2208082127"
CalcMineRestampsDate ==
  /\ ppc = "mine"
  /\ LET o == MineOutcome(header) IN
       \/ /\ o = "panic"
          /\ ppc' = "panic"
          /\ UNCHANGED <<header, calcRes, iters>>
       \/ /\ o = "retry"
          /\ iters < MaxIters
          /\ header' = [header EXCEPT
               !.counter = CounterInc(header.counter),
               !.date = <<50,50,48,56,48,56,50,49,50,55>>]
          /\ iters' = iters + 1
          /\ UNCHANGED <<ppc, calcRes>>
       \/ /\ o = "return"
          /\ calcRes' = [str |-> String(header), err |-> "nil"]
          /\ ppc' = "verify"
          /\ UNCHANGED <<header, iters>>
  /\ UNCHANGED <<challengeIn, verRes, orchVars, hashVars, fnVars, lsnVars>>

\* Calculate, lines 141-149: one iteration of the mining loop
CalcMine ==
  /\ ppc = "mine"
  /\ LET o == MineOutcome(header) IN
       \/ /\ o = "panic"
          /\ ppc' = "panic"
          /\ UNCHANGED <<header, calcRes, iters>>
       \/ /\ o = "retry"
          /\ iters < MaxIters
          /\ header' = [header EXCEPT !.counter = CounterInc(header.counter)]
          /\ iters' = iters + 1
          /\ UNCHANGED <<ppc, calcRes>>
       \/ /\ o = "return"
          /\ calcRes' = [str |-> String(header), err |-> "nil"]
          /\ ppc' = "verify"
          /\ UNCHANGED <<header, iters>>
  /\ UNCHANGED <<challengeIn, verRes, orchVars, hashVars, fnVars, lsnVars>>

\* Verify(Calculate(c), c)
VerifyCalculated ==
  /\ ppc = "verify"
  /\ verRes' = Verify(calcRes.str, challengeIn)
  /\ ppc' = "done"
  /\ UNCHANGED <<challengeIn, header, calcRes, iters, orchVars, hashVars, fnVars, lsnVars>>

PowNext == CalcParse \/ CalcMine \/ VerifyCalculated

SpecPow == PowInit /\ [][PowNext]_vars

-----------------------------------------------------------------------------
(* Challenge *)

\* "2208082121": timefmt.Format(time.Now(), FormatDate)
NowTexts == { <<50,50,48,56,48,56,50,49,50,49>> }

\* "cRvZdlXCCIrWoQ==": getRandom(), the base-64 text of ten random bytes
RandomTexts == { <<99,82,118,90,100,108,88,67,67,73,114,87,111,81,61,61>> }

\* rand.Int63(): values of [0, 2^63), here 7 and 4002984385515524138
Int63s == { <<7>>, <<4,0,0,2,9,8,4,3,8,5,5,1,5,5,2,4,1,3,8>> }

\* NewHeader(bits, resource): the headers it can return
NewHeader(b, resource) ==
  { [version |-> Version, bits |-> NatDigits(b), date |-> d,
     resource |-> resource, random |-> r, counter |-> Int64(FALSE, c)] :
      d \in NowTexts, r \in RandomTexts, c \in Int63s }

\* Challenge(bits, resource): the (string, error) pairs a ChallengeFunc can
\* return; the error of pow.Challenge is that of getRandom
Challenge(b, resource) ==
  { [str |-> String(h), err |-> "nil"] : h \in NewHeader(b, resource) }
    \cup { [str |-> <<>>, err |-> "create new header"] }

-----------------------------------------------------------------------------
(* ProofOfWork.ServeTCP, getVerificationResult and the downstream          *)
(* WordOfWisdomHandler.ServeTCP with getQuoteResult, on one connection.     *)

\* the smallest bits ServeTCP draws: rand.Intn(h.complexity-10) + 10
MinBits == 10

\* bound: largest configured complexity
MaxComplexity == 12

\* bound: how far past the challenge's counter the client's answers go
MaxAdvance == 2

\* "ping"
Ping == <<112,105,110,103>>

\* uuid.NewString(): "d778f1e9-d0a8-485e-ab51-053a12e9b397"
Uuid ==
  <<100,55,55,56,102,49,101,57,45,100,48,97,56,45,52,56,53,101,45,97,98,53,
    49,45,48,53,51,97,49,50,101,57,98,51,57,55>>

\* another resource: "f1a5a003-27ce-4e62-8c48-14c250965b92"
OtherUuid ==
  <<102,49,97,53,97,48,48,51,45,50,55,99,101,45,52,101,54,50,45,56,99,52,56,
    45,49,52,99,50,53,48,57,54,53,98,57,50>>

\* "random quote"
QuoteText == <<114,97,110,100,111,109,32,113,117,111,116,101>>

\* what a conn.Read can return: data, io.EOF, a net.Error, any other error
ReadOutcomes == {"data", "eof", "netErr", "otherErr"}

RECURSIVE Advance(_, _)
Advance(c, k) == IF k = 0 THEN c ELSE Advance(CounterInc(c), k - 1)

\* the messages the client may send after it was sent the string ch: the
\* challenge with its counter advanced by 0..MaxAdvance, the challenge bound
\* to another resource, and "ping"; a fixed answer when ch is no header
Responses(ch) ==
  LET p == ParseHeaderString(ch) IN
  IF p.err # "nil"
    THEN { Ping, MkHeader(<<49>>, <<49,48>>, <<50,50,48,56,48,56,50,49,50,49>>,
                          Uuid, <<>>, RandomText, EncodeToString(<<53>>)) }
    ELSE { String([p.h EXCEPT !.counter = Advance(p.h.counter, k)]) :
             k \in 0..MaxAdvance }
         \cup { String([p.h EXCEPT !.resource = OtherUuid]), Ping }

NoResult == [ok |-> FALSE, header |-> <<>>, err |-> "none"]

Notice(by, text) == [by |-> by, notice |-> text, data |-> <<>>]
Data(by, bytes) == [by |-> by, notice |-> "", data |-> bytes]

\* ZapLogger.Error calls err.Error(): a nil err is a nil dereference
LogErrorPanics(err) == logger = "zap" /\ err = "nil"

\* timeOut.Done() is closed: the deadline passed or the parent ctx is done
TimeOutDone == expired \/ cancelled

OrchInit ==
  /\ pc = "read" /\ vpc = "none" /\ qpc = "none"
  /\ logger \in {"zap", "mock"}
  /\ complexity \in MinBits..MaxComplexity
  /\ cancelled = FALSE /\ expired = FALSE
  /\ powBits = -1
  /\ issued = [str |-> <<>>, err |-> "none"]
  /\ vres = NoResult
  /\ vrecv = NoResult
  /\ qres = [quote |-> <<>>, err |-> "none"]
  /\ writes = <<>> /\ closes = <<>>
  /\ handlerCalls = 0

\* the engine harness while a connection is served: not running
PowIdle ==
  /\ ppc = "idle"
  /\ challengeIn = <<>>
  /\ header = NoHeader
  /\ calcRes = [str |-> <<>>, err |-> "none"]
  /\ verRes = [ok |-> FALSE, err |-> "none", panic |-> FALSE]
  /\ iters = 0

Init == OrchInit /\ PowIdle /\ HashIdle /\ FnIdle /\ LsnIdle

\* ReadInit that writes a notice before it closes on a failed Read
ReadInitNoticeOnError ==
  /\ pc = "read"
  /\ \E outcome \in ReadOutcomes :
       IF outcome \in {"netErr", "otherErr"}
         THEN /\ writes' = Append(writes, Notice("pow", "internal error"))
              /\ closes' = Append(closes, "pow")
              /\ pc' = "ret73"
              /\ UNCHANGED <<vpc, powBits, issued>>
       ELSE IF complexity - MinBits <= 0
         THEN /\ pc' = "panic"
              /\ UNCHANGED <<vpc, powBits, issued, writes, closes>>
       ELSE \E b \in MinBits..(complexity - 1) :
            \E ch \in Challenge(b, Uuid) :
              /\ powBits' = b
              /\ issued' = ch
              /\ writes' = Append(writes, Data("pow", ch.str))
              /\ vpc' = "read"
              /\ pc' = "select"
              /\ UNCHANGED closes
  /\ UNCHANGED <<qpc, logger, complexity, cancelled, expired, vres, vrecv,
                 qres, handlerCalls, powVars, hashVars, fnVars, lsnVars>>

\* ReadInit that draws bits from [10, complexity]
ReadInitBitsUpToComplexity ==
  /\ pc = "read"
  /\ \E outcome \in ReadOutcomes :
       IF outcome \in {"netErr", "otherErr"}
         THEN /\ closes' = Append(closes, "pow")
              /\ pc' = "ret73"
              /\ UNCHANGED <<vpc, powBits, issued, writes>>
       ELSE IF complexity - MinBits <= 0
         THEN /\ pc' = "panic"
              /\ UNCHANGED <<vpc, powBits, issued, writes, closes>>
       ELSE \E b \in MinBits..complexity :
            \E ch \in Challenge(b, Uuid) :
              /\ powBits' = b
              /\ issued' = ch
              /\ writes' = Append(writes, Data("pow", ch.str))
              /\ vpc' = "read"
              /\ pc' = "select"
              /\ UNCHANGED closes
  /\ UNCHANGED <<qpc, logger, complexity, cancelled, expired, vres, vrecv,
                 qres, handlerCalls, powVars, hashVars, fnVars, lsnVars>>

\* ServeTCP lines 66-97: the first Read returns; on an error other than
\* io.EOF close and return; else draw bits, call the challenge function,
\* write its string, arm the deadline and start getVerificationResult
ReadInit ==
  /\ pc = "read"
  /\ \E outcome \in ReadOutcomes :
       IF outcome \in {"netErr", "otherErr"}
         THEN /\ closes' = Append(closes, "pow")
              /\ pc' = "ret73"
              /\ UNCHANGED <<vpc, powBits, issued, writes>>
       ELSE IF complexity - MinBits <= 0
         THEN /\ pc' = "panic"
              /\ UNCHANGED <<vpc, powBits, issued, writes, closes>>
       ELSE \E b \in MinBits..(complexity - 1) :
            \E ch \in Challenge(b, Uuid) :
              /\ powBits' = b
              /\ issued' = ch
              /\ writes' = Append(writes, Data("pow", ch.str))
              /\ vpc' = "read"
              /\ pc' = "select"
              /\ UNCHANGED closes
  /\ UNCHANGED <<qpc, logger, complexity, cancelled, expired, vres, vrecv,
                 qres, handlerCalls, powVars, hashVars, fnVars, lsnVars>>

\* the process-wide shutdown signal: cancel() of the ambient context
Cancel ==
  /\ pc # "panic"
  /\ ~cancelled
  /\ cancelled' = TRUE
  /\ UNCHANGED <<pc, vpc, qpc, logger, complexity, expired, powBits, issued,
                 vres, vrecv, qres, writes, closes, handlerCalls, powVars, hashVars, fnVars, lsnVars>>

\* the deadline of context.WithTimeout(ctx, h.waitPOW) passes (line 94); the
\* deferred cancel() of line 95 runs only when ServeTCP returns, so the
\* deadline can also pass while the downstream handler runs (line 131)
Expire ==
  /\ pc \in {"select", "handler"}
  /\ ~expired
  /\ expired' = TRUE
  /\ UNCHANGED <<pc, vpc, qpc, logger, complexity, cancelled, powBits, issued,
                 vres, vrecv, qres, writes, closes, handlerCalls, powVars, hashVars, fnVars, lsnVars>>

\* VRead that reads the next message when the one it read does not verify
VReadAgainOnFailure ==
  /\ pc # "panic"
  /\ vpc = "read"
  /\ closes = <<>>
  /\ \E msg \in Responses(issued.str) :
       LET r == Verify(msg, issued.str) IN
       /\ ~r.panic
       /\ vres' = [ok |-> r.ok, header |-> msg, err |-> r.err]
       /\ vpc' = IF r.ok THEN "send" ELSE "read"
  /\ UNCHANGED <<pc, closes, qpc, logger, complexity, cancelled, expired,
                 powBits, issued, vrecv, qres, writes, handlerCalls, powVars,
                 hashVars, fnVars, lsnVars>>

\* getVerificationResult lines 141-165: the Read returns; io.EOF closes the
\* connection, a net.Error is sent as a result, any other error is logged;
\* a message is verified against the challenge and the outcome is sent
VRead ==
  /\ pc # "panic"
  /\ vpc = "read"
  /\ \E outcome \in (IF closes # <<>> THEN {"netErr"} ELSE ReadOutcomes) :
       CASE outcome = "eof" ->
              /\ closes' = Append(closes, "verifier")
              /\ vpc' = "done"
              /\ UNCHANGED <<pc, vres>>
         [] outcome = "netErr" ->
              /\ vres' = [ok |-> FALSE, header |-> <<>>,
                          err |-> "read from closed connection"]
              /\ vpc' = "send"
              /\ UNCHANGED <<pc, closes>>
         [] outcome = "otherErr" ->
              /\ vpc' = "done"
              /\ UNCHANGED <<pc, vres, closes>>
         [] outcome = "data" ->
              \E msg \in Responses(issued.str) :
                LET r == Verify(msg, issued.str) IN
                IF r.panic
                  THEN /\ pc' = "panic"
                       /\ UNCHANGED <<vpc, vres, closes>>
                  ELSE /\ vres' = [ok |-> r.ok, header |-> msg, err |-> r.err]
                       /\ vpc' = "send"
                       /\ UNCHANGED <<pc, closes>>
  /\ UNCHANGED <<qpc, logger, complexity, cancelled, expired, powBits, issued,
                 vrecv, qres, writes, handlerCalls, powVars, hashVars, fnVars, lsnVars>>

\* SelectCtxDone that returns without the notice
SelectCtxDoneNoNotice ==
  /\ pc = "select"
  /\ TimeOutDone
  /\ closes' = Append(closes, "pow")
  /\ pc' = "ret107"
  /\ UNCHANGED <<vpc, qpc, logger, complexity, cancelled, expired, powBits,
                 issued, vres, vrecv, qres, writes, handlerCalls, powVars,
                 hashVars, fnVars, lsnVars>>

\* ServeTCP lines 103-108: case <-timeOut.Done()
SelectCtxDone ==
  /\ pc = "select"
  /\ TimeOutDone
  /\ writes' = Append(writes, Notice("pow", "context done"))
  /\ closes' = Append(closes, "pow")
  /\ pc' = "ret107"
  /\ UNCHANGED <<vpc, qpc, logger, complexity, cancelled, expired, powBits,
                 issued, vres, vrecv, qres, handlerCalls, powVars, hashVars, fnVars, lsnVars>>

\* SelectVerification that falls through to the downstream handler on !v.ok
SelectVerificationIgnoresOk ==
  /\ pc = "select"
  /\ vpc = "send"
  /\ vrecv' = vres
  /\ vpc' = "done"
  /\ IF vres.err # "nil"
       THEN IF LogErrorPanics(issued.err)
              THEN /\ pc' = "panic"
                   /\ UNCHANGED <<writes, closes, handlerCalls, qpc>>
              ELSE /\ writes' = Append(writes,
                          Notice("pow", "internal error on verifying PoW"))
                   /\ closes' = Append(closes, "pow")
                   /\ pc' = "ret115"
                   /\ UNCHANGED <<handlerCalls, qpc>>
     ELSE IF ~vres.ok
       THEN /\ handlerCalls' = handlerCalls + 1
            /\ qpc' = "quote"
            /\ pc' = "handler"
            /\ UNCHANGED <<writes, closes>>
     ELSE /\ handlerCalls' = handlerCalls + 1
          /\ qpc' = "quote"
          /\ pc' = "handler"
          /\ UNCHANGED <<writes, closes>>
  /\ UNCHANGED <<logger, complexity, cancelled, expired, powBits, issued,
                 vres, qres, powVars, hashVars, fnVars, lsnVars>>

\* SelectVerification that closes the connection before the hand-off
SelectVerificationClosesOnPass ==
  /\ pc = "select"
  /\ vpc = "send"
  /\ vrecv' = vres
  /\ vpc' = "done"
  /\ IF vres.err # "nil"
       THEN IF LogErrorPanics(issued.err)
              THEN /\ pc' = "panic"
                   /\ UNCHANGED <<writes, closes, handlerCalls, qpc>>
              ELSE /\ writes' = Append(writes,
                          Notice("pow", "internal error on verifying PoW"))
                   /\ closes' = Append(closes, "pow")
                   /\ pc' = "ret115"
                   /\ UNCHANGED <<handlerCalls, qpc>>
     ELSE IF ~vres.ok
       THEN /\ writes' = Append(writes, Notice("pow", "PoW verification failed"))
            /\ closes' = Append(closes, "pow")
            /\ pc' = "ret121"
            /\ UNCHANGED <<handlerCalls, qpc>>
     ELSE /\ handlerCalls' = handlerCalls + 1
          /\ qpc' = "quote"
          /\ pc' = "handler"
          /\ closes' = Append(closes, "pow")
          /\ UNCHANGED writes
  /\ UNCHANGED <<logger, complexity, cancelled, expired, powBits, issued,
                 vres, qres, powVars, hashVars, fnVars, lsnVars>>

\* SelectVerification that closes on !v.ok without the notice
SelectVerificationSilentFail ==
  /\ pc = "select"
  /\ vpc = "send"
  /\ vrecv' = vres
  /\ vpc' = "done"
  /\ IF vres.err # "nil"
       THEN IF LogErrorPanics(issued.err)
              THEN /\ pc' = "panic"
                   /\ UNCHANGED <<writes, closes, handlerCalls, qpc>>
              ELSE /\ writes' = Append(writes,
                          Notice("pow", "internal error on verifying PoW"))
                   /\ closes' = Append(closes, "pow")
                   /\ pc' = "ret115"
                   /\ UNCHANGED <<handlerCalls, qpc>>
     ELSE IF ~vres.ok
       THEN /\ closes' = Append(closes, "pow")
            /\ pc' = "ret121"
            /\ UNCHANGED <<writes, handlerCalls, qpc>>
     ELSE /\ handlerCalls' = handlerCalls + 1
          /\ qpc' = "quote"
          /\ pc' = "handler"
          /\ UNCHANGED <<writes, closes>>
  /\ UNCHANGED <<logger, complexity, cancelled, expired, powBits, issued,
                 vres, qres, powVars, hashVars, fnVars, lsnVars>>

\* SelectVerification that, timeOut being done as well, writes the notice of
\* the done context before it calls the downstream handler
SelectVerificationAlsoTimesOut ==
  /\ pc = "select"
  /\ vpc = "send"
  /\ vrecv' = vres
  /\ vpc' = "done"
  /\ IF vres.err # "nil"
       THEN IF LogErrorPanics(issued.err)
              THEN /\ pc' = "panic"
                   /\ UNCHANGED <<writes, closes, handlerCalls, qpc>>
              ELSE /\ writes' = Append(writes,
                          Notice("pow", "internal error on verifying PoW"))
                   /\ closes' = Append(closes, "pow")
                   /\ pc' = "ret115"
                   /\ UNCHANGED <<handlerCalls, qpc>>
     ELSE IF ~vres.ok
       THEN /\ writes' = Append(writes,
                   Notice("pow", "PoW verification failed"))
            /\ closes' = Append(closes, "pow")
            /\ pc' = "ret121"
            /\ UNCHANGED <<handlerCalls, qpc>>
     ELSE /\ handlerCalls' = handlerCalls + 1
          /\ qpc' = "quote"
          /\ pc' = "handler"
          /\ writes' = IF TimeOutDone
                         THEN Append(writes, Notice("pow", "context done"))
                         ELSE writes
          /\ UNCHANGED closes
  /\ UNCHANGED <<logger, complexity, cancelled, expired, powBits, issued,
                 vres, qres, powVars, hashVars, fnVars, lsnVars>>

\* ServeTCP lines 109-131: case v := <-verification, up to the call of the
\* downstream handler, whose first statements start getQuoteResult
SelectVerification ==
  /\ pc = "select"
  /\ vpc = "send"
  /\ vrecv' = vres
  /\ vpc' = "done"
  /\ IF vres.err # "nil"
       THEN IF LogErrorPanics(issued.err)
              THEN /\ pc' = "panic"
                   /\ UNCHANGED <<writes, closes, handlerCalls, qpc>>
              ELSE /\ writes' = Append(writes,
                          Notice("pow", "internal error on verifying PoW"))
                   /\ closes' = Append(closes, "pow")
                   /\ pc' = "ret115"
                   /\ UNCHANGED <<handlerCalls, qpc>>
     ELSE IF ~vres.ok
       THEN /\ writes' = Append(writes, Notice("pow", "PoW verification failed"))
            /\ closes' = Append(closes, "pow")
            /\ pc' = "ret121"
            /\ UNCHANGED <<handlerCalls, qpc>>
     ELSE /\ handlerCalls' = handlerCalls + 1
          /\ qpc' = "quote"
          /\ pc' = "handler"
          /\ UNCHANGED <<writes, closes>>
  /\ UNCHANGED <<logger, complexity, cancelled, expired, powBits, issued,
                 vres, qres, powVars, hashVars, fnVars, lsnVars>>

\* getQuoteResult: srv.Quote() returns a quote or an error
QuoteDone ==
  /\ pc # "panic"
  /\ qpc = "quote"
  /\ qres' \in { [quote |-> QuoteText, err |-> "nil"],
                 [quote |-> <<>>, err |-> "get random quote id"] }
  /\ qpc' = "send"
  /\ UNCHANGED <<pc, vpc, logger, complexity, cancelled, expired, powBits,
                 issued, vres, vrecv, writes, closes, handlerCalls, powVars, hashVars, fnVars, lsnVars>>

\* HandlerQuote that does not close the connection when srv.Quote() failed
HandlerQuoteErrorLeftOpen ==
  /\ pc = "handler"
  /\ qpc = "send"
  /\ qpc' = "done"
  /\ writes' = Append(writes,
        IF qres.err # "nil" THEN Notice("wow", "cannot get a quote")
        ELSE Data("wow", qres.quote))
  /\ closes' = IF qres.err # "nil" THEN closes ELSE Append(closes, "wow")
  /\ pc' = "ret132"
  /\ UNCHANGED <<vpc, logger, complexity, cancelled, expired, powBits, issued,
                 vres, vrecv, qres, handlerCalls, powVars, hashVars, fnVars,
                 lsnVars>>

\* WordOfWisdomHandler.ServeTCP: case res := <-quote; the handler returns
\* and so does ProofOfWork.ServeTCP (line 132)
HandlerQuote ==
  /\ pc = "handler"
  /\ qpc = "send"
  /\ qpc' = "done"
  /\ writes' = Append(writes,
        IF qres.err # "nil" THEN Notice("wow", "cannot get a quote")
        ELSE Data("wow", qres.quote))
  /\ closes' = Append(closes, "wow")
  /\ pc' = "ret132"
  /\ UNCHANGED <<vpc, logger, complexity, cancelled, expired, powBits, issued,
                 vres, vrecv, qres, handlerCalls, powVars, hashVars, fnVars, lsnVars>>

\* HandlerCtxDone that closes without the notice
HandlerCtxDoneNoNotice ==
  /\ pc = "handler"
  /\ cancelled
  /\ closes' = Append(closes, "wow")
  /\ pc' = "ret132"
  /\ UNCHANGED <<vpc, qpc, logger, complexity, cancelled, expired, powBits,
                 issued, vres, vrecv, qres, writes, handlerCalls, powVars,
                 hashVars, fnVars, lsnVars>>

\* HandlerCtxDone of a handler that was given timeOut instead of ctx
HandlerCtxDoneOnTimeOut ==
  /\ pc = "handler"
  /\ TimeOutDone
  /\ writes' = Append(writes, Notice("wow", "context done"))
  /\ closes' = Append(closes, "wow")
  /\ pc' = "ret132"
  /\ UNCHANGED <<vpc, qpc, logger, complexity, cancelled, expired, powBits,
                 issued, vres, vrecv, qres, handlerCalls, powVars, hashVars,
                 fnVars, lsnVars>>

\* WordOfWisdomHandler.ServeTCP: case <-ctx.Done(), on the ambient context
HandlerCtxDone ==
  /\ pc = "handler"
  /\ cancelled
  /\ writes' = Append(writes, Notice("wow", "context done"))
  /\ closes' = Append(closes, "wow")
  /\ pc' = "ret132"
  /\ UNCHANGED <<vpc, qpc, logger, complexity, cancelled, expired, powBits,
                 issued, vres, vrecv, qres, handlerCalls, powVars, hashVars, fnVars, lsnVars>>

Next ==
  \/ ReadInit
  \/ Cancel
  \/ Expire
  \/ VRead
  \/ SelectCtxDone
  \/ SelectVerification
  \/ QuoteDone
  \/ HandlerQuote
  \/ HandlerCtxDone

Spec == Init /\ [][Next]_vars

\* the Go scheduler runs every goroutine that can take a step, the timer of
\* timeOut fires and srv.Quote() returns; a conn.Read returns only when the
\* peer sends or closes, and the shutdown signal may never come, so ReadInit,
\* VRead and Cancel carry no fairness
LiveSpec ==
  /\ Init
  /\ [][Next]_vars
  /\ WF_vars(Expire)
  /\ WF_vars(SelectCtxDone)
  /\ WF_vars(SelectVerification)
  /\ WF_vars(QuoteDone)
  /\ WF_vars(HandlerQuote)
  /\ WF_vars(HandlerCtxDone)

-----------------------------------------------------------------------------
(* Concurrent invocations of Calculate and Verify, each started by the      *)
(* goroutine of its own connection, on the one package-level hasher.  A     *)
(* step is one call of a method of hasher inside getHash; the calls of      *)
(* different invocations interleave freely, nothing orders them.            *)

\* bound: number of concurrent invocations
MaxCalls == 2

\* bound: counter++ steps one Calculate invocation is followed for
MaxTries == 1

\* the headers the invocations work on: two connections' challenges
CallHeaders ==
  { [version |-> Version, bits |-> NatDigits(b), date |-> d,
     resource |-> res, random |-> r, counter |-> Int64(FALSE, <<7>>)] :
      b \in {1, 3}, d \in NowTexts, res \in {Uuid, OtherUuid},
      r \in RandomTexts }

HashInit ==
  /\ OrchIdle
  /\ PowIdle
  /\ FnIdle
  /\ LsnIdle
  /\ hasher = <<>>
  /\ calls \in [1..MaxCalls ->
                  { [kind |-> k, pc |-> "reset", h |-> hd, wrote |-> <<>>,
                     hash |-> <<>>, tries |-> 0, ok |-> FALSE] :
                      k \in {"Calculate", "Verify"}, hd \in CallHeaders }]

\* getHash line 199: hasher.Reset()
GetHashReset ==
  \E p \in 1..MaxCalls :
    /\ calls[p].pc = "reset"
    /\ hasher' = HasherReset
    /\ calls' = [calls EXCEPT ![p].pc = "write"]
    /\ UNCHANGED <<powVars, orchVars, fnVars, lsnVars>>

\* getHash line 200: hasher.Write([]byte(header))
GetHashWrite ==
  \E p \in 1..MaxCalls :
    /\ calls[p].pc = "write"
    /\ hasher' = HasherWrite(hasher, String(calls[p].h))
    /\ calls' = [calls EXCEPT ![p].pc = "sum",
                              ![p].wrote = String(calls[p].h)]
    /\ UNCHANGED <<powVars, orchVars, fnVars, lsnVars>>

\* getHash line 201: hasher.Sum(nil), then the caller's checkBits: Verify
\* returns its outcome (line 185); Calculate returns on true (line 145) and
\* on false increments the counter and hashes again (line 148)
GetHashSum ==
  \E p \in 1..MaxCalls :
    LET c    == calls[p]
        hash == HasherSum(hasher)
        ok   == checkBits(hash, c.h.bits)
    IN  /\ c.pc = "sum"
        /\ IF c.kind = "Calculate" /\ ~ok
             THEN /\ c.tries < MaxTries
                  /\ calls' = [calls EXCEPT
                       ![p].hash = hash,
                       ![p].ok = ok,
                       ![p].h = [c.h EXCEPT !.counter = CounterInc(c.h.counter)],
                       ![p].tries = c.tries + 1,
                       ![p].pc = "reset"]
             ELSE calls' = [calls EXCEPT ![p].hash = hash, ![p].ok = ok,
                                         ![p].pc = "done"]
        /\ UNCHANGED <<hasher, powVars, orchVars, fnVars, lsnVars>>

HashNext ==
  \/ GetHashReset
  \/ GetHashWrite
  \/ GetHashSum

SpecHash == HashInit /\ [][HashNext]_vars

-----------------------------------------------------------------------------
(* checkBits(hash, bits) called on a digest and a bits value.               *)

\* bound: largest bits value checkBits is called with
MaxTestBits == 63

\* bound: length of the short digests
ShortDigestLen == 8

\* the bytes on either side of each threshold of the switch
BoundaryBytes == {1, 2, 3, 4, 7, 8, 15, 16, 31, 32, 63, 64, 127, 128, 255}

\* n bytes: k zero bytes, the byte v, then the byte t repeated
MkDigest(n, k, v, t) ==
  [i \in 1..n |-> IF i <= k THEN 0 ELSE IF i = k + 1 THEN v ELSE t]

\* digests of ShortDigestLen bytes and of sha256.Size bytes
TestDigests ==
  { MkDigest(ShortDigestLen, k, v, t) :
      k \in 0..(ShortDigestLen - 1), v \in BoundaryBytes, t \in {0, 255} }
    \cup { MkDigest(DigestLen, k, v, 255) :
             k \in 0..ShortDigestLen, v \in BoundaryBytes }
    \cup { MkDigest(ShortDigestLen, ShortDigestLen, 0, 0),
           MkDigest(DigestLen, DigestLen, 0, 0) }

BitsInit ==
  /\ OrchIdle
  /\ PowIdle
  /\ HashIdle
  /\ LsnIdle
  /\ fn = "checkBits"
  /\ arg \in [hash : TestDigests, bits : { NatDigits(b) : b \in 0..MaxTestBits }]
  /\ ret = [done |-> FALSE]

\* checkBits(arg.hash, arg.bits) returns, or panics on an index out of range
CheckBitsCall ==
  /\ fn = "checkBits"
  /\ ~ret.done
  /\ ret' = IF checkBitsPanics(arg.hash, arg.bits)
              THEN [done |-> TRUE, ok |-> FALSE, panic |-> TRUE]
              ELSE [done |-> TRUE, ok |-> checkBits(arg.hash, arg.bits),
                    panic |-> FALSE]
  /\ UNCHANGED <<fn, arg, powVars, orchVars, hashVars, lsnVars>>

BitsNext == CheckBitsCall

SpecBits == BitsInit /\ [][BitsNext]_vars

-----------------------------------------------------------------------------
(* Header.String on a Header value, then ParseHeaderString on its result.   *)

\* Header values: bits 0, 12, 2^63 - 1, 2^63 and 2^64 - 1; resources a UUID,
\* "resource", "" and "a:b"; counters over the whole int64 range
CodecHeaders ==
  { [version |-> v, bits |-> b, date |-> d, resource |-> res, random |-> r,
     counter |-> c] :
      v \in {Version, 2},
      b \in { <<0>>, <<1, 2>>, MaxInt64, DecInc(MaxInt64), MaxUint64 },
      d \in NowTexts \cup { <<50,50,48,49,48,49,48,48,48,48>> },
      res \in { Uuid, <<114,101,115,111,117,114,99,101>>, <<>>, <<97,58,98>> },
      r \in RandomTexts \cup { <<99,109,70,117,90,71,57,116>> },
      c \in { Int64(FALSE, <<0>>), Int64(FALSE, <<7>>),
              Int64(FALSE, <<1,0,0,0>>), Int64(TRUE, <<1>>),
              Int64(FALSE, MaxInt64), Int64(TRUE, MinInt64Mag) } }

CodecInit ==
  /\ OrchIdle
  /\ PowIdle
  /\ HashIdle
  /\ LsnIdle
  /\ fn = "String"
  /\ arg \in CodecHeaders
  /\ ret = [done |-> FALSE]

\* str := arg.String()
StringCall ==
  /\ fn = "String"
  /\ DOMAIN ret = {"done"}
  /\ ret' = [done |-> FALSE, str |-> String(arg)]
  /\ UNCHANGED <<fn, arg, powVars, orchVars, hashVars, lsnVars>>

\* ParseHeaderString(str)
ParseCall ==
  /\ fn = "String"
  /\ DOMAIN ret = {"done", "str"}
  /\ ret' = [done |-> TRUE, str |-> ret.str,
             parsed |-> ParseHeaderString(ret.str)]
  /\ UNCHANGED <<fn, arg, powVars, orchVars, hashVars, lsnVars>>

CodecNext == StringCall \/ ParseCall

SpecCodec == CodecInit /\ [][CodecNext]_vars

-----------------------------------------------------------------------------
(* Verify(calculated, challenge) called on a challenge and on a response    *)
(* that is the challenge with one field's text replaced.                    *)

\* the field texts of the challenges: version, bits, date, resource,
\* extension, random, counter
VerifyChallengeFields ==
  { << <<49>>, b, <<50,50,48,56,48,56,50,49,50,49>>, Uuid, <<>>, r,
       EncodeToString(c) >> :
      b \in { <<48>>, <<49>>, <<50>>, <<49,50>> },
      r \in RandomTexts,
      c \in { <<55>>, <<56>>, <<57>> } }

\* replacement texts per field: version "2" and "x"; bits "3", "012" and "x";
\* date "2208082127" and "x"; another resource; another random; the
\* counters 10 and 11
Replacements ==
  << { <<50>>, <<120>> },
     { <<51>>, <<48,49,50>>, <<120>> },
     { <<50,50,48,56,48,56,50,49,50,55>>, <<120>> },
     { OtherUuid },
     {},
     { <<107,85,117,109,102,78,90,65,113,116,97,48,51,81,61,61>> },
     { EncodeToString(<<49,48>>), EncodeToString(<<49,49>>) } >>

JoinFields(f) == MkHeader(f[1], f[2], f[3], f[4], f[5], f[6], f[7])

VerifyInit ==
  /\ OrchIdle
  /\ PowIdle
  /\ HashIdle
  /\ LsnIdle
  /\ fn = "Verify"
  /\ \E f \in VerifyChallengeFields :
       \/ arg = [calculated |-> JoinFields(f), challenge |-> JoinFields(f)]
       \/ \E k \in 1..7 : \E t \in Replacements[k] :
            arg = [calculated |-> JoinFields([f EXCEPT ![k] = t]),
                   challenge  |-> JoinFields(f)]
  /\ ret = [done |-> FALSE]

\* Verify(arg.calculated, arg.challenge) returns
VerifyCall ==
  /\ fn = "Verify"
  /\ ~ret.done
  /\ ret' = [done |-> TRUE] @@ Verify(arg.calculated, arg.challenge)
  /\ UNCHANGED <<fn, arg, powVars, orchVars, hashVars, lsnVars>>

VerifyNext == VerifyCall

SpecVerify == VerifyInit /\ [][VerifyNext]_vars

-----------------------------------------------------------------------------
(* ParseHeaderString called on a well-formed header string and on strings   *)
(* that differ from one in a single respect.                                *)

\* per way of spoiling a header, the field spoiled and the texts put there:
\* 2 version "duck", "" and "1x"; 3 version "3", "0", "2" and "-1";
\* 4 bits "duck", "" and "2.5"; 5 date "2022-01-01T00-00", "", "2201" and
\* "22010100001"; 6 counter "*#$*", "MTAwMA=" and "MTAwMA"; 7 counter "duck",
\* "" and the base-64 texts of "9223372036854775808" and "1.5";
\* 8 bits "-1" and "-12"
SpoiledField == <<4, 1, 1, 2, 3, 7, 7, 2>>

SpoiledTexts ==
  << { <<97,58,98>> },
     { <<100,117,99,107>>, <<>>, <<49,120>> },
     { <<51>>, <<48>>, <<50>>, <<45,49>> },
     { <<100,117,99,107>>, <<>>, <<50,46,53>> },
     { <<50,48,50,50,45,48,49,45,48,49,84,48,48,45,48,48>>, <<>>, <<50,50,48,49>>, <<50,50,48,49,48,49,48,48,48,48,49>> },
     { <<42,35,36,42>>, <<77,84,65,119,77,65,61>>, <<77,84,65,119,77,65>> },
     { <<100,117,99,107>>, <<>>, EncodeToString(ToAscii(MinInt64Mag)),
       EncodeToString(<<49,46,53>>) },
     { <<45,49>>, <<45,49,50>> } >>

\* the inputs: way 0 is a well-formed header; way 1 gives a string of other
\* than seven fields ("corrupted", a resource "a:b", the counter field cut
\* off); ways 2 to 8 replace one field by one of the texts above
ParseInputs ==
  { [way |-> 0, header |-> JoinFields(f)] : f \in VerifyChallengeFields }
  \cup { [way |-> 1, header |-> <<99,111,114,114,117,112,116,101,100>>] }
  \cup { [way |-> 1, header |-> JoinFields([f EXCEPT ![4] = t])] :
           f \in VerifyChallengeFields, t \in SpoiledTexts[1] }
  \cup { [way |-> 1,
          header |-> SubSeq(JoinFields(f), 1,
                            Len(JoinFields(f)) - Len(f[7]) - 1)] :
           f \in VerifyChallengeFields }
  \cup UNION { { [way |-> k,
                  header |-> JoinFields([f EXCEPT ![SpoiledField[k]] = t])] :
                   f \in VerifyChallengeFields, t \in SpoiledTexts[k] } :
               k \in 2..8 }

ParseInit ==
  /\ OrchIdle
  /\ PowIdle
  /\ HashIdle
  /\ LsnIdle
  /\ fn = "ParseHeaderString"
  /\ arg \in ParseInputs
  /\ ret = [done |-> FALSE]

\* ParseHeaderString(arg.header) returns
ParseHeaderStringCall ==
  /\ fn = "ParseHeaderString"
  /\ ~ret.done
  /\ ret' = [done |-> TRUE] @@ ParseHeaderString(arg.header)
  /\ UNCHANGED <<fn, arg, powVars, orchVars, hashVars, lsnVars>>

ParseNext == ParseHeaderStringCall

SpecParse == ParseInit /\ [][ParseNext]_vars

-----------------------------------------------------------------------------
(* Challenge(bits, resource) called on given bits and a given resource.     *)

\* the bits passed: 0, 1, 10, 11, 12, 20 and 255
ChallengeBits == {0, 1, 10, 11, 12, 20, 255}

\* the resources passed: a UUID, "resource", "" and "a:b"
ChallengeResources == { Uuid, <<114,101,115,111,117,114,99,101>>, <<>>, <<97,58,98>> }

ChallengeInit ==
  /\ OrchIdle
  /\ PowIdle
  /\ HashIdle
  /\ LsnIdle
  /\ fn = "Challenge"
  /\ arg \in [bits : ChallengeBits, resource : ChallengeResources]
  /\ ret = [done |-> FALSE]

\* Challenge(arg.bits, arg.resource) returns
ChallengeCall ==
  /\ fn = "Challenge"
  /\ ~ret.done
  /\ \E r \in Challenge(arg.bits, arg.resource) : ret' = [done |-> TRUE] @@ r
  /\ UNCHANGED <<fn, arg, powVars, orchVars, hashVars, lsnVars>>

ChallengeNext == ChallengeCall

SpecChallenge == ChallengeInit /\ [][ChallengeNext]_vars

-----------------------------------------------------------------------------
(* The accept loop of Server.ListenAndServe (tcp/server.go lines 58-89),    *)
(* the lifetime context, and the goroutines it starts.                      *)

\* bound: number of connections the listener is offered
MaxConns == 3

ListenInit ==
  /\ OrchIdle
  /\ PowIdle
  /\ HashIdle
  /\ FnIdle
  /\ lpc = "select"
  /\ lacc = "none"
  /\ lret = "none"
  /\ lcancelled = FALSE
  /\ lclosed = 0
  /\ handlers = <<>>
  /\ lafter = 0
  /\ hafter = 0

\* cancel() of the lifetime context, at any moment
ListenCancel ==
  /\ lpc # "idle"
  /\ ~lcancelled
  /\ lcancelled' = TRUE
  /\ UNCHANGED <<lpc, lacc, lret, lclosed, handlers, lafter, hafter>>
  /\ UNCHANGED <<powVars, orchVars, hashVars, fnVars>>

\* ListenCtxDone with the return of nil but without the call of l.Close
ListenCtxDoneNoClose ==
  /\ lpc = "select"
  /\ lcancelled
  /\ lret' = "nil"
  /\ lpc' = "returned"
  /\ UNCHANGED <<lacc, lcancelled, lclosed, handlers, lafter, hafter>>
  /\ UNCHANGED <<powVars, orchVars, hashVars, fnVars>>

\* lines 60-67: case <-ctx.Done(): l.Close(), return nil
ListenCtxDone ==
  /\ lpc = "select"
  /\ lcancelled
  /\ lclosed' = lclosed + 1
  /\ lret' = "nil"
  /\ lpc' = "returned"
  /\ UNCHANGED <<lacc, lcancelled, handlers, lafter, hafter>>
  /\ UNCHANGED <<powVars, orchVars, hashVars, fnVars>>

\* ListenSetDeadline of a loop that goes on to l.Accept without looking at
\* the context
ListenSetDeadlineCtxUnseen ==
  /\ lpc = "select"
  /\ \/ lpc' = "accept" /\ lret' = lret
     \/ lpc' = "returned" /\ lret' = "set TCP listener deadline"
  /\ UNCHANGED <<lacc, lcancelled, lclosed, handlers, lafter, hafter>>
  /\ UNCHANGED <<powVars, orchVars, hashVars, fnVars>>

\* lines 68-75: default, taken only while ctx is not done: l.SetDeadline
\* either fails, which is returned, or succeeds and l.Accept is called
ListenSetDeadline ==
  /\ lpc = "select"
  /\ ~lcancelled
  /\ \/ lpc' = "accept" /\ lret' = lret
     \/ lpc' = "returned" /\ lret' = "set TCP listener deadline"
  /\ UNCHANGED <<lacc, lcancelled, lclosed, handlers, lafter, hafter>>
  /\ UNCHANGED <<powVars, orchVars, hashVars, fnVars>>

\* line 75: l.Accept returns a connection, the error of the deadline, or
\* another error
ListenAcceptReturns ==
  /\ lpc = "accept"
  /\ \/ Len(handlers) < MaxConns /\ lacc' = "conn"
     \/ lacc' = "timeout"
     \/ lacc' = "error"
  /\ lpc' = "accepted"
  /\ lafter' = IF lcancelled THEN lafter + 1 ELSE lafter
  /\ UNCHANGED <<lret, lcancelled, lclosed, handlers, hafter>>
  /\ UNCHANGED <<powVars, orchVars, hashVars, fnVars>>

\* ListenAcceptFailed without the test os.IsTimeout: every error is returned
ListenAcceptFailedAlways ==
  /\ lpc = "accepted"
  /\ lacc \in {"timeout", "error"}
  /\ lpc' = "returned" /\ lret' = "accept connection"
  /\ lacc' = "none"
  /\ UNCHANGED <<lcancelled, lclosed, handlers, lafter, hafter>>
  /\ UNCHANGED <<powVars, orchVars, hashVars, fnVars>>

\* lines 76-81: err != nil: continue if os.IsTimeout(err), else return
\* "accept connection: ..."
ListenAcceptFailed ==
  /\ lpc = "accepted"
  /\ lacc \in {"timeout", "error"}
  /\ IF lacc = "timeout"
       THEN lpc' = "select" /\ lret' = lret
       ELSE lpc' = "returned" /\ lret' = "accept connection"
  /\ lacc' = "none"
  /\ UNCHANGED <<lcancelled, lclosed, handlers, lafter, hafter>>
  /\ UNCHANGED <<powVars, orchVars, hashVars, fnVars>>

\* ListenServe that starts a handler only once the earlier ones returned
ListenServeOneAtATime ==
  /\ lpc = "accepted"
  /\ lacc = "conn"
  /\ \A i \in 1..Len(handlers) : handlers[i] = "returned"
  /\ handlers' = Append(handlers, "running")
  /\ lpc' = "select"
  /\ lacc' = "none"
  /\ hafter' = IF lcancelled THEN hafter + 1 ELSE hafter
  /\ UNCHANGED <<lret, lcancelled, lclosed, lafter>>
  /\ UNCHANGED <<powVars, orchVars, hashVars, fnVars>>

\* lines 83-86: go s.handler.ServeTCP(ctx, wrapped), and back to the select
ListenServe ==
  /\ lpc = "accepted"
  /\ lacc = "conn"
  /\ handlers' = Append(handlers, "running")
  /\ lpc' = "select"
  /\ lacc' = "none"
  /\ hafter' = IF lcancelled THEN hafter + 1 ELSE hafter
  /\ UNCHANGED <<lret, lcancelled, lclosed, lafter>>
  /\ UNCHANGED <<powVars, orchVars, hashVars, fnVars>>

\* a goroutine's s.handler.ServeTCP returns; one that stalls never does
HandlerReturns ==
  /\ \E i \in 1..Len(handlers) :
       /\ handlers[i] = "running"
       /\ handlers' = [handlers EXCEPT ![i] = "returned"]
  /\ UNCHANGED <<lpc, lacc, lret, lcancelled, lclosed, lafter, hafter>>
  /\ UNCHANGED <<powVars, orchVars, hashVars, fnVars>>

\* the steps of ListenAndServe itself
ListenStep ==
  \/ ListenCtxDone
  \/ ListenSetDeadline
  \/ ListenAcceptReturns
  \/ ListenAcceptFailed
  \/ ListenServe

ListenNext ==
  \/ ListenCancel
  \/ ListenCtxDone
  \/ ListenSetDeadline
  \/ ListenAcceptReturns
  \/ ListenAcceptFailed
  \/ ListenServe
  \/ HandlerReturns

SpecListen == ListenInit /\ [][ListenNext]_vars

\* the goroutine of ListenAndServe keeps being scheduled, and each l.Accept
\* returns (by its deadline at the latest); handlers may stall for ever and
\* the context need never be cancelled
LiveListen ==
  /\ SpecListen
  /\ WF_vars(ListenCtxDone)
  /\ WF_vars(ListenSetDeadline)
  /\ WF_vars(ListenAcceptReturns)
  /\ WF_vars(ListenAcceptFailed)
  /\ WF_vars(ListenServe)

-----------------------------------------------------------------------------
(* Verify(calculated, challenge) called on two texts of which each is a     *)
(* well-formed header or a spoiled one.                                     *)

\* a well-formed header, the headers got from it by replacing one field by
\* a text of SpoiledTexts (ways 2 to 7), and "corrupted"
VerifyParseTexts ==
  LET f == << <<49>>, <<50>>, <<50,50,48,56,48,56,50,49,50,49>>, Uuid, <<>>,
              <<99,82,118,90,100,108,88,67,67,73,114,87,111,81,61,61>>,
              EncodeToString(<<55>>) >>
  IN  { JoinFields(f), <<99,111,114,114,117,112,116,101,100>> }
      \cup UNION { { JoinFields([f EXCEPT ![SpoiledField[k]] = t]) :
                       t \in SpoiledTexts[k] } : k \in 2..7 }

VerifyParseInit ==
  /\ OrchIdle
  /\ PowIdle
  /\ HashIdle
  /\ LsnIdle
  /\ fn = "Verify"
  /\ arg \in [calculated : VerifyParseTexts, challenge : VerifyParseTexts]
  /\ ret = [done |-> FALSE]

SpecVerifyParse == VerifyParseInit /\ [][VerifyNext]_vars

-----------------------------------------------------------------------------
(* C1 *)

\* C1: for every challenge that ParseHeaderString accepts and whose bits are
\* small (at most MaxBits), Calculate neither fails nor panics, and Verify of
\* the string Calculate returns, against the same challenge, returns true
\* with no error.
C1_VerifyOfCalculate ==
  /\ (ppc = "done" /\ calcRes.err = "nil") =>
       (verRes.ok /\ verRes.err = "nil" /\ ~verRes.panic)
  /\ challengeIn \in ValidChallenges =>
       (ppc # "panic" /\ (ppc = "done" => calcRes.err = "nil"))

\* C1 witness: a challenge whose counter the mining loop had to advance, and
\* whose result Verify accepted
C1_Witness ==
  /\ ppc = "done"
  /\ iters > 0
  /\ calcRes.err = "nil"
  /\ calcRes.str # challengeIn
  /\ verRes.ok

-----------------------------------------------------------------------------
(* C2 *)

\* C2: the downstream handler is invoked at most once on a connection, and
\* when it has been invoked the challenge was the first thing written and the
\* result ServeTCP received carries ok = true and no error, for a message
\* that Verify accepts against the issued challenge; after every return that
\* is not the one behind the handler (read failure, deadline or cancellation,
\* Verify error, Verify false) and after a crash it has not been invoked.
C2_HandlerOnlyAfterProof ==
  /\ handlerCalls <= 1
  /\ handlerCalls = 1 =>
       /\ Len(writes) >= 1
       /\ writes[1] = Data("pow", issued.str)
       /\ issued.err = "nil"
       /\ vrecv.ok /\ vrecv.err = "nil"
       /\ Verify(vrecv.header, issued.str) =
            [ok |-> TRUE, err |-> "nil", panic |-> FALSE]
  /\ pc \in {"read", "select", "ret73", "ret107", "ret115", "ret121", "panic"}
       => handlerCalls = 0
  /\ (vrecv.err # "none" /\ ~(vrecv.ok /\ vrecv.err = "nil"))
       => handlerCalls = 0

\* C2 witness: the handler was invoked, once, and ServeTCP returned
C2_Witness ==
  /\ handlerCalls = 1
  /\ pc = "ret132"
  /\ vrecv.ok
  /\ vrecv.header # issued.str

-----------------------------------------------------------------------------
(* C3 *)

\* C3: while ServeTCP waits in its select, if the deadline has passed or the
\* ambient context is cancelled and no verification result is waiting to be
\* received, the only step ServeTCP takes writes "context done", closes the
\* connection and returns; and whenever it has returned through that branch
\* the notice is its last write, it closed the connection, it received no
\* verification result and the downstream handler was not and is never
\* invoked.
C3_ContextDone ==
  /\ [](pc = "ret107" =>
          /\ writes[Len(writes)] = Notice("pow", "context done")
          /\ closes[Len(closes)] = "pow"
          /\ vrecv.err = "none"
          /\ handlerCalls = 0)
  /\ [][(pc = "select" /\ TimeOutDone /\ vpc # "send" /\ pc' # pc) =>
          /\ pc' = "ret107"
          /\ writes' = Append(writes, Notice("pow", "context done"))
          /\ closes' = Append(closes, "pow")
          /\ handlerCalls' = 0]_vars

\* C3 witness: the deadline passed with no cancellation while a challenge was
\* out, and ServeTCP returned through the timeOut.Done() branch
C3_Witness ==
  /\ pc = "ret107"
  /\ expired /\ ~cancelled
  /\ writes = <<Data("pow", issued.str), Notice("pow", "context done")>>
  /\ closes = <<"pow">>

-----------------------------------------------------------------------------
(* C4 *)

\* C4: when the result ServeTCP received carries ok = true, ServeTCP itself
\* closed nothing and wrote nothing but the challenge; while the downstream
\* handler runs nobody has closed the connection, and ServeTCP has returned
\* exactly when the downstream handler has (its write and close are the last
\* ones on the connection).
C4_HandOffLiveConnection ==
  vrecv.ok =>
    /\ pc \in {"handler", "ret132"}
    /\ handlerCalls = 1
    /\ \A i \in 1..Len(closes) : closes[i] # "pow"
    /\ \A i \in 1..Len(writes) :
         writes[i].by = "pow" => (i = 1 /\ writes[i] = Data("pow", issued.str))
    /\ pc = "handler" => (closes = <<>> /\ Len(writes) = 1)
    /\ pc = "ret132" =>
         /\ closes = <<"wow">>
         /\ Len(writes) = 2 /\ writes[2].by = "wow"

\* C4 witness: the connection was handed over and the handler served a quote
C4_Witness ==
  /\ vrecv.ok
  /\ pc = "ret132"
  /\ writes = <<Data("pow", issued.str), Data("wow", QuoteText)>>

-----------------------------------------------------------------------------
(* C5 *)

\* C5: when the result ServeTCP received carries ok = false and no error,
\* ServeTCP has written the challenge and then "PoW verification failed",
\* closed the connection once, returned (line 121), and the downstream
\* handler was not invoked.
C5_VerificationFailed ==
  (vrecv.err = "nil" /\ ~vrecv.ok) =>
    /\ pc = "ret121"
    /\ writes = <<Data("pow", issued.str),
                  Notice("pow", "PoW verification failed")>>
    /\ closes = <<"pow">>
    /\ handlerCalls = 0

\* C5 witness: a header bound to the same challenge whose digest fails
C5_Witness ==
  /\ vrecv.err = "nil" /\ ~vrecv.ok
  /\ pc = "ret121"
  /\ ParseHeaderString(vrecv.header).err = "nil"
  /\ Verify(vrecv.header, issued.str).err = "nil"

-----------------------------------------------------------------------------
(* C6 *)

C6_NoticeWhenLoggerSurvives ==
  (vrecv.err \notin {"none", "nil"} /\ ~LogErrorPanics(issued.err)) =>
    /\ pc = "ret115"
    /\ writes[Len(writes)] = Notice("pow", "internal error on verifying PoW")
    /\ closes = <<"pow">>
    /\ handlerCalls = 0

-----------------------------------------------------------------------------
(* C7 *)

\* C7: once the Read of getVerificationResult has returned io.EOF (the
\* goroutine closed the connection), nothing is written to the connection
\* and it is not closed again.
C7_SilentStopOnEOF ==
  (closes # <<>> /\ Head(closes) = "verifier") =>
    /\ closes = <<"verifier">>
    /\ writes = <<Data("pow", issued.str)>>

\* C7, the return: once the Read has returned io.EOF, ServeTCP stays in its
\* select for as long as the deadline has not passed and the ambient context
\* is not cancelled
C7_WaitsForDeadline ==
  (closes # <<>> /\ Head(closes) = "verifier" /\ ~TimeOutDone) => pc = "select"

\* C7, what follows the io.EOF: "context done" written to the connection
\* the goroutine closed, and a second Close
C7_NoticeAfterEOF ==
  /\ pc = "ret107"
  /\ closes = <<"verifier", "pow">>
  /\ writes = <<Data("pow", issued.str), Notice("pow", "context done")>>

-----------------------------------------------------------------------------
(* C8 *)

\* C8: getVerificationResult is never left at its channel send after
\* ServeTCP has returned through the timeOut.Done() branch (no step of the
\* program receives from the channel any more).
C8_AbandonedUnitTerminates ==
  ~(pc = "ret107" /\ vpc = "send")

\* C8, the state the goroutine is left in: blocked at the send, on the read
\* error of the connection ServeTCP closed
C8_BlockedAtSend ==
  /\ pc = "ret107"
  /\ vpc = "send"
  /\ vres.err = "read from closed connection"
  /\ ~ENABLED SelectVerification

-----------------------------------------------------------------------------
(* C9 *)

\* C9: the digest an invocation of Calculate or Verify has taken and tested
\* is the SHA-256 of the header string that this invocation wrote, whatever
\* the other invocations did between its Reset, Write and Sum.
C9_DigestOfOwnHeader ==
  \A p \in DOMAIN calls :
    (calls[p].hash # <<>> /\ calls[p].pc \in {"reset", "done"}) =>
      calls[p].hash = Sha256(calls[p].wrote)

\* C9, the consequence: an invocation whose bit test came out differently
\* from the test of the digest of its own header
C9_WrongVerdict ==
  \E p \in DOMAIN calls :
    /\ calls[p].pc = "done"
    /\ calls[p].ok # checkBits(Sha256(calls[p].wrote), calls[p].h.bits)

-----------------------------------------------------------------------------
(* C10 *)

\* C10: once the ambient context is cancelled, ServeTCP eventually has
\* closed the connection and returned, or has handed the connection to the
\* downstream handler (or the process has crashed), from every position,
\* the first Read included.
C10_CancelReachesTerminal ==
  cancelled ~> (pc \in {"handler", "ret73", "ret107", "ret115", "ret121",
                        "ret132", "panic"})

\* C10, the part that holds: cancelled while in the select, ServeTCP leaves
\* the select
C10_CancelLeavesSelect ==
  (cancelled /\ pc = "select") ~> (pc # "select")

\* C10, where it fails: cancelled, and still in the first Read
C10_StuckInFirstRead ==
  cancelled /\ pc = "read"

-----------------------------------------------------------------------------
(* C11 *)

\* C11: whenever the connection has been closed by the server, and not after
\* a served quote, exactly one notice has been written on it.
C11_NoticeBeforeEveryClose ==
  LET notices == { i \in 1..Len(writes) : writes[i].notice # "" }
      served  == Len(writes) = 2 /\ writes[2] = Data("wow", QuoteText)
  IN  (closes # <<>> /\ ~served) => Cardinality(notices) = 1

\* C11, as the code has it: at most one notice is ever written; a return of
\* ServeTCP after the challenge was written (lines 107, 115, 121, 132) has
\* the one notice, or the quote, as the last write, made in the step that
\* closes; the close after a failed first Read (line 73) and the close by
\* getVerificationResult on io.EOF are made with no notice written.
C11_NoticeBeforeCloseAfterChallenge ==
  LET notices == { i \in 1..Len(writes) : writes[i].notice # "" }
      last    == writes[Len(writes)]
  IN  /\ Cardinality(notices) <= 1
      /\ pc \in {"ret107", "ret115", "ret121"} =>
           /\ notices = {Len(writes)}
           /\ last.by = "pow"
           /\ closes[Len(closes)] = "pow"
      /\ pc = "ret132" =>
           /\ Len(writes) = 2 /\ last.by = "wow"
           /\ last.notice = "" => last = Data("wow", QuoteText)
           /\ closes = <<"wow">>
      /\ pc = "ret73" => (writes = <<>> /\ closes = <<"pow">>)
      /\ closes = <<"verifier">> => notices = {}

\* C11 witness: the downstream handler's notice on cancellation, the only
\* notice on the connection, then its close
C11_Witness ==
  /\ pc = "ret132"
  /\ writes = <<Data("pow", issued.str), Notice("wow", "context done")>>
  /\ closes = <<"wow">>

\* C11, a close with no notice: the first Read failed
C11_SilentCloseOnReadError ==
  /\ pc = "ret73"
  /\ closes = <<"pow">>
  /\ writes = <<>>

-----------------------------------------------------------------------------
(* C12 *)

\* C12: on one connection ServeTCP writes at most one challenge and calls the
\* challenge function once; getVerificationResult is started only after that
\* write, its Read returns once and is never entered again; the one result
\* it produces is the outcome of Verify on the message read against the
\* string that was issued.
C12_OneChallengeOneResult ==
  /\ [](Cardinality({ i \in 1..Len(writes) :
                        writes[i].by = "pow" /\ writes[i].notice = "" }) <= 1)
  /\ [](vpc # "none" =>
          (Len(writes) >= 1 /\ writes[1] = Data("pow", issued.str)))
  /\ [](vres.header # <<>> =>
          LET r == Verify(vres.header, issued.str)
          IN  vres.ok = r.ok /\ vres.err = r.err)
  /\ [][issued' # issued => (issued.err = "none" /\ vpc = "none")]_vars
  /\ [][(vpc' = "read" /\ vpc # "read") => vpc = "none"]_vars
  /\ [][vres' # vres => (vpc = "read" /\ vpc' = "send" /\ vres = NoResult)]_vars

\* C12 witness: the challenge was written, one message was read and verified
\* against it, and its result was received
C12_Witness ==
  /\ vpc = "done"
  /\ vrecv.header # <<>>
  /\ writes[1] = Data("pow", issued.str)
  /\ vrecv.ok = Verify(vrecv.header, issued.str).ok

-----------------------------------------------------------------------------
(* C13 *)

\* C13: when ServeTCP has returned at line 73 (its first Read failed with an
\* error other than io.EOF) it has closed the connection, once, and it has
\* written nothing, drawn no bits, not called the challenge function, not
\* started getVerificationResult and not invoked the downstream handler; and
\* line 73 is reached from the first Read only.
C13_StartReadErrorCloses ==
  /\ [](pc = "ret73" =>
          /\ closes = <<"pow">>
          /\ writes = <<>>
          /\ powBits = -1
          /\ issued.err = "none"
          /\ vpc = "none" /\ qpc = "none"
          /\ handlerCalls = 0)
  /\ [][(pc' = "ret73" /\ pc # "ret73") => pc = "read"]_vars

\* C13 witness: the first Read failed and ServeTCP returned, the shutdown
\* signal not involved
C13_Witness ==
  /\ pc = "ret73"
  /\ ~cancelled
  /\ closes = <<"pow">>

-----------------------------------------------------------------------------
(* C14 *)

\* C14: when the challenge function returned an error, ServeTCP does not wait
\* for a result: getVerificationResult is not started and ServeTCP is not in
\* its select.
C14_ChallengeErrorStops ==
  issued.err \notin {"none", "nil"} => (vpc = "none" /\ pc # "select")

\* C14, what the code does: the empty string written as the challenge,
\* nothing closed, getVerificationResult reading and ServeTCP in its select
C14_AwaitingAfterChallengeError ==
  /\ issued.err = "create new header"
  /\ writes = <<Data("pow", <<>>)>>
  /\ closes = <<>>
  /\ vpc = "read"
  /\ pc = "select"

\* C14, the part that holds: after a failed challenge call the downstream
\* handler is not invoked (no message verifies against the empty string)
C14_NoHandlerAfterChallengeError ==
  issued.err \notin {"none", "nil"} => handlerCalls = 0

-----------------------------------------------------------------------------
(* C15 *)

\* C15: getVerificationResult never ends on a failed Read (an error other
\* than io.EOF) leaving the connection open and ServeTCP waiting in its
\* select with nothing to receive.
C15_FailedReadClosesAtOnce ==
  ~(/\ pc = "select"
    /\ vpc = "done"
    /\ vrecv.err = "none"
    /\ closes = <<>>)

\* C15, the state after a Read error that is not a net.Error: the goroutine
\* gone, the connection open, the deadline still ahead
C15_WaitingAfterFailedRead ==
  /\ pc = "select"
  /\ vpc = "done"
  /\ vrecv.err = "none"
  /\ closes = <<>>
  /\ ~TimeOutDone
  /\ ~ENABLED SelectVerification
  /\ ~ENABLED SelectCtxDone

-----------------------------------------------------------------------------
(* C16 *)

\* C16: when the result ServeTCP received is Verify's mismatch error, the
\* process has not crashed: ServeTCP has written a notice, closed the
\* connection and returned, and the downstream handler was not invoked.
C16_MismatchIsVerificationFailure ==
  vrecv.err = "calculated header doesn't match the challenge" =>
    /\ pc \in {"ret115", "ret121"}
    /\ writes[Len(writes)].notice # ""
    /\ closes = <<"pow">>
    /\ handlerCalls = 0

\* C16, the crash: the production Logger and a response bound to another
\* resource
C16_CrashOnMismatch ==
  /\ pc = "panic"
  /\ logger = "zap"
  /\ vrecv.err = "calculated header doesn't match the challenge"
  /\ ParseHeaderString(vrecv.header).h.resource = OtherUuid
  /\ closes = <<>>

-----------------------------------------------------------------------------
(* C17 *)

\* C17: with a complexity above 10, the first Read of ServeTCP does not end
\* in a crash, the bits ServeTCP draws satisfy 10 <= bits < complexity, and
\* they are the bits of the header the challenge function returns.
C17_BitsInRange ==
  complexity > MinBits =>
    /\ pc = "panic" => writes # <<>>
    /\ powBits # -1 =>
         /\ MinBits <= powBits /\ powBits < complexity
         /\ issued.err = "nil" =>
              ParseHeaderString(issued.str).h.bits = NatDigits(powBits)

\* C17 witness: the largest value, complexity - 1, above 10
C17_Witness ==
  /\ complexity > MinBits
  /\ powBits = complexity - 1
  /\ powBits > MinBits
  /\ issued.err = "nil"

-----------------------------------------------------------------------------
(* C18 *)

\* C18: for bits in 0..MaxTestBits and a digest of at least eight bytes,
\* checkBits does not panic and returns true exactly when the digest starts
\* with at least bits zero bits (counted from the most significant bit of
\* the first byte).
C18_CheckBitsIsLeadingZeros ==
  LET ByteZeros(v) ==
        CHOOSE n \in 0..8 : v < Pow2(8 - n) /\ (n < 8 => v >= Pow2(7 - n))
      nonZero == { i \in 1..Len(arg.hash) : arg.hash[i] # 0 }
      first   == CHOOSE i \in nonZero : \A j \in nonZero : i <= j
      zeros   == IF nonZero = {} THEN 8 * Len(arg.hash)
                 ELSE 8 * (first - 1) + ByteZeros(arg.hash[first])
  IN  (fn = "checkBits" /\ ret.done) =>
        /\ ~ret.panic
        /\ ret.ok <=> (zeros >= ToNat(arg.bits))

\* C18 witness: sixty-three bits asked of the eight bytes 0,0,0,0,0,0,0,1
C18_Witness ==
  /\ fn = "checkBits" /\ ret.done
  /\ arg.bits = <<6, 3>>
  /\ arg.hash = <<0, 0, 0, 0, 0, 0, 0, 1>>
  /\ ret.ok

\* C18, a rejection by one bit: seven bits asked of a digest starting with 2
C18_RejectedByOneBit ==
  /\ fn = "checkBits" /\ ret.done
  /\ arg.bits = <<7>>
  /\ arg.hash[1] = 2
  /\ ~ret.ok

-----------------------------------------------------------------------------
(* C19 *)

\* C19: for a Header with version 1, bits that fit a signed 64-bit integer, a
\* date that timefmt.Parse accepts, and a resource and a random without ':',
\* ParseHeaderString of its String() returns no error and a header with the
\* same version, bits, date, resource, random and counter; the extension
\* field of the string is empty.
C19_RoundTrip ==
  LET valid == /\ arg.version = Version
               /\ ~DecLess(MaxInt64, arg.bits)
               /\ ParseDate(arg.date)
               /\ \A i \in 1..Len(arg.resource) : arg.resource[i] # 58
               /\ \A i \in 1..Len(arg.random) : arg.random[i] # 58
  IN  (fn = "String" /\ ret.done /\ valid) =>
        /\ ret.parsed.err = "nil"
        /\ ret.parsed.h = arg
        /\ Split(ret.str)[5] = <<>>

\* C19 witness: the header with bits 2^63 - 1, the UUID resource and the
\* smallest int64 as counter came back equal
C19_Witness ==
  /\ fn = "String" /\ ret.done
  /\ arg.version = Version
  /\ arg.bits = MaxInt64
  /\ arg.resource = Uuid
  /\ arg.counter = Int64(TRUE, MinInt64Mag)
  /\ ret.parsed.err = "nil"
  /\ ret.parsed.h = arg

\* C19, outside it: the resource "a:b" gives a string of eight fields
C19_ColonInResource ==
  /\ fn = "String" /\ ret.done
  /\ arg.resource = <<97,58,98>>
  /\ ret.parsed.err = "malformed header string"

\* C19, outside it: bits 2^63 is printed in full and strconv.Atoi rejects it
C19_BitsBeyondInt ==
  /\ fn = "String" /\ ret.done
  /\ arg.version = Version /\ arg.resource = Uuid
  /\ arg.bits = DecInc(MaxInt64)
  /\ ret.parsed.err = "convert bits to int"

-----------------------------------------------------------------------------
(* C20 *)

\* C20: when the response differs from the challenge in the value of its
\* version, bits, date, resource or random (version and bits being integers
\* and the date being in the format), Verify returns false and the error
\* "calculated header doesn't match the challenge".
C20_AnyAlterationIsMismatch ==
  LET a == Split(arg.calculated)
      b == Split(arg.challenge)
      wellFormed == /\ Atoi(a[1]).err = "nil"
                    /\ Atoi(a[2]).err = "nil"
                    /\ ParseDate(a[3])
      altered == \/ Atoi(a[1]).val # Atoi(b[1]).val
                 \/ Atoi(a[2]).val # Atoi(b[2]).val
                 \/ a[3] # b[3]
                 \/ a[4] # b[4]
                 \/ a[6] # b[6]
  IN  (fn = "Verify" /\ ret.done /\ wellFormed /\ altered) =>
        /\ ~ret.ok
        /\ ret.err = "calculated header doesn't match the challenge"

\* C20, as the code has it: a response that ParseHeaderString rejects, as it
\* does every version other than 1, makes Verify return false and the error
\* "parse calculated header string"; a response it accepts whose bits, date,
\* resource or random differs from the challenge's makes Verify return false
\* and the mismatch error, whatever its digest.
C20_MismatchOrParseError ==
  LET a == Split(arg.calculated)
      b == Split(arg.challenge)
      p == ParseHeaderString(arg.calculated)
      q == ParseHeaderString(arg.challenge)
  IN  (fn = "Verify" /\ ret.done) =>
        /\ ~ret.panic
        /\ a[1] # b[1] => p.err # "nil"
        /\ p.err # "nil" =>
             (~ret.ok /\ ret.err = "parse calculated header string")
        /\ (/\ p.err = "nil"
            /\ \/ p.h.bits # q.h.bits
               \/ p.h.date # q.h.date
               \/ p.h.resource # q.h.resource
               \/ p.h.random # q.h.random) =>
             /\ ~ret.ok
             /\ ret.err = "calculated header doesn't match the challenge"

\* C20 witness: the resource replaced, in a response whose digest passes the
\* test for its one or more bits: the mismatch error
C20_Witness ==
  LET p == ParseHeaderString(arg.calculated) IN
  /\ fn = "Verify" /\ ret.done
  /\ Split(arg.calculated)[4] = OtherUuid
  /\ p.h.bits # <<0>>
  /\ checkBits(getHash(String(p.h)), p.h.bits)
  /\ ret.err = "calculated header doesn't match the challenge"

\* C20, the version replaced by 2: the parse error, not the mismatch error
C20_VersionAltered ==
  /\ fn = "Verify" /\ ret.done
  /\ Split(arg.calculated)[1] = <<50>>
  /\ ~ret.ok
  /\ ret.err = "parse calculated header string"

-----------------------------------------------------------------------------
(* C21 *)

\* C21: when the response and the challenge both parse and agree in version,
\* bits, date, resource and random, and the digest of the response's
\* serialization fails checkBits for its bits, Verify returns false and a
\* nil error.
C21_BadDigestIsNotAnError ==
  LET p == ParseHeaderString(arg.calculated)
      q == ParseHeaderString(arg.challenge)
      same == /\ p.h.version = q.h.version
              /\ p.h.bits = q.h.bits
              /\ p.h.date = q.h.date
              /\ p.h.resource = q.h.resource
              /\ p.h.random = q.h.random
  IN  (/\ fn = "Verify" /\ ret.done
       /\ p.err = "nil" /\ q.err = "nil" /\ same
       /\ ~checkBits(Sha256(String(p.h)), p.h.bits)) =>
        (~ret.ok /\ ret.err = "nil" /\ ~ret.panic)

\* C21 witness: a response that differs from the challenge in its counter
\* only, with a digest that fails the test: (false, nil)
C21_Witness ==
  LET a == Split(arg.calculated)
      b == Split(arg.challenge)
  IN  /\ fn = "Verify" /\ ret.done
      /\ a[7] # b[7]
      /\ \A k \in 1..6 : a[k] = b[k]
      /\ ~checkBits(Sha256(arg.calculated), Atoi(a[2]).val.mag)
      /\ ~ret.ok /\ ret.err = "nil"

-----------------------------------------------------------------------------
(* C22 *)

\* C22: when Calculate has returned a string after n increments, that string
\* is the serialization of the parsed challenge with its counter advanced n
\* times by one (int64 arithmetic), its digest passes checkBits for the
\* challenge's bits, and for every k < n the digest of the serialization with
\* the counter advanced k times fails it.
C22_FirstPassingCounter ==
  LET p == ParseHeaderString(challengeIn)
      At(k) == String([p.h EXCEPT !.counter = Advance(p.h.counter, k)])
  IN  (ppc \in {"verify", "done"} /\ calcRes.err = "nil") =>
        /\ p.err = "nil"
        /\ calcRes.str = At(iters)
        /\ checkBits(Sha256(calcRes.str), p.h.bits)
        /\ \A k \in 0..(iters - 1) : ~checkBits(Sha256(At(k)), p.h.bits)

\* C22 witness: a result found after two or more increments
C22_Witness ==
  /\ ppc = "done"
  /\ calcRes.err = "nil"
  /\ iters >= 2
  /\ checkBits(Sha256(calcRes.str), header.bits)

\* C22, at the end of the range: the counter after 9223372036854775807 is
\* -9223372036854775808
C22_CounterWrapped ==
  /\ ppc = "done"
  /\ calcRes.err = "nil"
  /\ iters > 0
  /\ header.counter.neg
  /\ ~ParseHeaderString(challengeIn).h.counter.neg

-----------------------------------------------------------------------------
(* C23 *)

\* the error ParseHeaderString gives for each of its seven ways to fail
C23_ErrorOf ==
  << "malformed header string", "convert version to int",
     "unsupported version", "convert bits to int", "parse date",
     "decode counter", "convert counter to int" >>

\* C23: ParseHeaderString fails and returns no header when the string has
\* other than seven fields, the version is not an integer, the version is
\* not 1, the bits are not an integer, the date is not a YYMMDDHHMM text, the
\* counter is not base-64 text, or the decoded counter is not an int64; each
\* of the seven gives its own error, different from the other six
C23_SevenDistinctFailures ==
  /\ Cardinality({ C23_ErrorOf[k] : k \in 1..7 }) = 7
  /\ (fn = "ParseHeaderString" /\ ret.done /\ arg.way \in 1..7) =>
       /\ ret.err = C23_ErrorOf[arg.way]
       /\ ret.h = NoHeader

\* C23 witness: the parse of a header whose decoded counter is out of the
\* int64 range has failed at the last of the seven steps
C23_Witness ==
  /\ fn = "ParseHeaderString" /\ ret.done /\ arg.way = 7
  /\ Split(arg.header)[7] = EncodeToString(ToAscii(MinInt64Mag))
  /\ ret.err = "convert counter to int"
  /\ ret.h = NoHeader

-----------------------------------------------------------------------------
(* C24 *)

\* the text is an integer that is not negative
C24_NonNegativeInteger(t) == Atoi(t).err = "nil" /\ ~Atoi(t).val.neg

\* C24: ParseHeaderString fails with the error for invalid bits whenever the
\* bits field of a seven-field header of version 1 is not an integer that is
\* zero or more; a negative integer is such a field
C24_NegativeBitsRejected ==
  (/\ fn = "ParseHeaderString" /\ ret.done /\ arg.way \in {4, 8}
   /\ ~C24_NonNegativeInteger(Split(arg.header)[2])) =>
     /\ ret.err = "convert bits to int"
     /\ ret.h = NoHeader

\* C24: the header with bits "-1" has been parsed without error, and the
\* header returned has bits 2^64 - 1
C24_NegativeBitsAccepted ==
  /\ fn = "ParseHeaderString" /\ ret.done /\ arg.way = 8
  /\ Split(arg.header)[2] = <<45, 49>>
  /\ ret.err = "nil"
  /\ ret.h.bits = MaxUint64

-----------------------------------------------------------------------------
(* C25 *)

\* C25: for every bits and every resource, the string Challenge returns has
\* exactly seven fields between colons: version 1, the bits passed, a reading
\* of the clock, the resource passed, an empty extension, a random text that
\* is not empty, and a counter that decodes to an int64
C25_SevenFields ==
  (fn = "Challenge" /\ ret.done /\ ret.err = "nil") =>
    LET f == Split(ret.str) IN
      /\ Len(f) = 7
      /\ f[1] = <<49>>
      /\ f[2] = ToAscii(NatDigits(arg.bits))
      /\ f[3] \in NowTexts
      /\ f[4] = arg.resource
      /\ f[5] = <<>>
      /\ f[6] # <<>>
      /\ ~DecodeString(f[7]).err
      /\ ParseInt(DecodeString(f[7]).bytes).err = "nil"

\* C25: Challenge has returned, for the resource "a:b", a string of eight
\* fields, which ParseHeaderString refuses
C25_EightFields ==
  /\ fn = "Challenge" /\ ret.done /\ ret.err = "nil"
  /\ arg.resource = <<97, 58, 98>>
  /\ Len(Split(ret.str)) = 8
  /\ ParseHeaderString(ret.str).err = "malformed header string"

\* C25: for resources without a colon the string has the seven fields
C25_SevenFieldsWithoutColon ==
  (\A i \in 1..Len(arg.resource) : arg.resource[i] # 58) => C25_SevenFields

-----------------------------------------------------------------------------
(* C26 *)

\* ListenAndServe has returned an error of l.SetDeadline or of l.Accept
C26_ReturnedError ==
  lret \in {"set TCP listener deadline", "accept connection"}

-----------------------------------------------------------------------------
(* C27 *)

\* C27: when l.Accept returned the error of the deadline, ListenAndServe goes
\* back to the select without returning; when it returned another error,
\* ListenAndServe returns "accept connection: ..." at once; and once it has
\* returned, no connection is accepted and no handler is started
C27_TimeoutContinuesErrorReturns ==
  [][/\ (lpc = "accepted" /\ lacc = "timeout" /\ lpc' # lpc) =>
          (lpc' = "select" /\ lret' = "none")
     /\ (lpc = "accepted" /\ lacc = "error" /\ lpc' # lpc) =>
          (lpc' = "returned" /\ lret' = "accept connection"
           /\ Len(handlers') = Len(handlers))
     /\ (lpc = "returned") =>
          (lpc' = "returned" /\ lret' = lret /\ lacc' = lacc
           /\ Len(handlers') = Len(handlers))]_vars

\* C27 witness: after two connections were accepted, an l.Accept failed with
\* an error other than the deadline's and ListenAndServe returned it
C27_Witness ==
  /\ lpc = "returned" /\ lret = "accept connection"
  /\ Len(handlers) = 2
  /\ ~lcancelled /\ lclosed = 0

-----------------------------------------------------------------------------
(* C28 *)

\* C28: whatever the handlers of the connections accepted so far do, running
\* or returned, the accept loop has a step to take until ListenAndServe
\* returns: it never waits for a handler; and every connection accepted has
\* a goroutine of its own
C28_AcceptLoopNeverWaits ==
  /\ (lpc \in {"select", "accept", "accepted"}) => ENABLED ListenStep
  /\ \A i \in 1..Len(handlers) : handlers[i] \in {"running", "returned"}

\* C28 witness: the handler of a third connection is to be started while
\* the handlers of the first two have not returned
C28_Witness ==
  /\ lpc = "accepted" /\ lacc = "conn"
  /\ handlers = <<"running", "running">>
  /\ ENABLED ListenServe

-----------------------------------------------------------------------------
(* C29 *)

\* C29: while the downstream handler runs, that is after the verification
\* passed, the passing of the waitPOW deadline changes nothing but the timer:
\* ServeTCP stays in the handler, nothing is written and nothing closed, and
\* the handler's context is not done; every write and close made from then
\* on is the handler's, and the handler writes "context done" only when the
\* ambient context is done
C29_DeadlineDoesNotReachHandler ==
  [][/\ (pc = "handler" /\ ~expired /\ expired') =>
          (/\ pc' = "handler" /\ writes' = writes /\ closes' = closes
           /\ cancelled' = cancelled /\ qpc' = qpc)
     /\ (pc = "handler" /\ writes' # writes) =>
          (/\ Len(writes') = Len(writes) + 1
           /\ writes'[Len(writes')].by = "wow"
           /\ (writes'[Len(writes')].notice = "context done" => cancelled))
     /\ (pc = "handler" /\ closes' # closes) =>
          closes' = Append(closes, "wow")]_vars

\* C29 witness: the verification passed, the deadline has passed since, the
\* ambient context is not done, and the handler has delivered the quote:
\* the connection carries the challenge and the quote, and only the handler
\* closed it
C29_Witness ==
  /\ pc = "ret132" /\ expired /\ ~cancelled
  /\ vrecv.ok /\ handlerCalls = 1
  /\ Len(writes) = 2 /\ writes[2] = Data("wow", QuoteText)
  /\ closes = <<"wow">>

-----------------------------------------------------------------------------
(* C30 *)

\* the entry was made by WordOfWisdomHandler.ServeTCP
C30_ByHandler(w) == w.by = "wow"

\* the close was made by WordOfWisdomHandler.ServeTCP
C30_CloseByHandler(c) == c = "wow"

\* C30: WordOfWisdomHandler.ServeTCP has written and closed nothing before
\* it returns, and when it has returned it has written exactly one message
\* and closed the connection exactly once; the message is the quote when it
\* received a quote, "cannot get a quote" when it received the error of
\* srv.Quote(), and "context done" when it took the case of the done context
\* instead, the quote not received
C30_OneMessageOneClose ==
  LET hw == SelectSeq(writes, C30_ByHandler)
      hc == SelectSeq(closes, C30_CloseByHandler)
  IN  /\ pc # "ret132" => (hw = <<>> /\ hc = <<>>)
      /\ pc = "ret132" =>
           /\ Len(hw) = 1
           /\ Len(hc) = 1
           /\ handlerCalls = 1
           /\ IF qpc = "done"
                THEN hw[1] = IF qres.err = "nil"
                               THEN Data("wow", qres.quote)
                               ELSE Notice("wow", "cannot get a quote")
                ELSE cancelled /\ hw[1] = Notice("wow", "context done")

\* C30 witness: srv.Quote() failed; the handler wrote "cannot get a quote",
\* closed the connection and returned
C30_Witness ==
  /\ pc = "ret132" /\ qpc = "done"
  /\ qres.err = "get random quote id"
  /\ writes[Len(writes)] = Notice("wow", "cannot get a quote")
  /\ closes = <<"wow">>

-----------------------------------------------------------------------------
(* C31 *)

\* ServeTCP has returned: timed out (line 107), failed (lines 115 and 121) or
\* passed, the downstream handler having returned (line 132)
C31_Returned == pc \in {"ret107", "ret115", "ret121", "ret132"}

\* C31: every connection whose challenge has been written reaches one of
\* the outcomes timed out, failed, passed, and ServeTCP returns, also when
\* the client sends nothing and getVerificationResult delivers nothing
C31_ChallengedConnectionEnds == (pc = "select") ~> C31_Returned

\* C31, the part that holds: with a Logger whose Error accepts a nil error
\* every such connection ends
C31_EndsUnlessLoggerCrashes ==
  (pc = "select" /\ logger = "mock") ~> C31_Returned

\* C31, the crash: the production Logger; the client answered the challenge
\* with "ping", Verify's parse error was received, nothing was written after
\* the challenge and the connection is not closed
C31_CrashAfterChallenge ==
  /\ pc = "panic"
  /\ logger = "zap"
  /\ vrecv.header = Ping
  /\ vrecv.err \notin {"none", "nil"}
  /\ Len(writes) = 1
  /\ closes = <<>>

-----------------------------------------------------------------------------
(* C32 *)

\* the entry is a notice written by ProofOfWork.ServeTCP
C32_OrchestratorNotice(w) == w.by = "pow" /\ w.notice # ""

\* C32: on one connection ProofOfWork.ServeTCP writes at most one of its
\* notices; it writes none when it calls the downstream handler, which it
\* calls at most once; and a return at line 107, 115 or 121 has written
\* exactly the notice of that line - also when the verification result and
\* the done timeOut were ready at the same select
C32_OneOutcome ==
  LET pn == SelectSeq(writes, C32_OrchestratorNotice) IN
    /\ Len(pn) <= 1
    /\ handlerCalls <= 1
    /\ handlerCalls = 1 => pn = <<>>
    /\ pc = "ret107" => pn = <<Notice("pow", "context done")>>
    /\ pc = "ret115" =>
         pn = <<Notice("pow", "internal error on verifying PoW")>>
    /\ pc = "ret121" => pn = <<Notice("pow", "PoW verification failed")>>

\* C32 witness: the deadline had passed when ServeTCP received the result
\* of a failed verification: both cases of the select were ready, and the
\* only notice written is "PoW verification failed"
C32_Witness ==
  /\ pc = "ret121" /\ expired /\ ~cancelled
  /\ SelectSeq(writes, C32_OrchestratorNotice)
       = <<Notice("pow", "PoW verification failed")>>
  /\ closes = <<"pow">>
  /\ handlerCalls = 0

-----------------------------------------------------------------------------
(* C33 *)

\* C33: Verify reports a calculated header that does not parse as "parse
\* calculated header string", also when the challenge does not parse
\* either, and a challenge that does not parse, the calculated header
\* parsing, as "parse challenge header string"; the two errors differ, and
\* each comes with the result false
C33_ResultParsedFirst ==
  (fn = "Verify" /\ ret.done) =>
    LET p == ParseHeaderString(arg.calculated)
        q == ParseHeaderString(arg.challenge)
    IN  /\ p.err # "nil" =>
             (ret.err = "parse calculated header string" /\ ~ret.ok)
        /\ (p.err = "nil" /\ q.err # "nil") =>
             (ret.err = "parse challenge header string" /\ ~ret.ok)
        /\ (p.err = "nil" /\ q.err = "nil") =>
             ret.err \notin { "parse calculated header string",
                              "parse challenge header string" }

\* C33 witness: Verify was called on two texts that both fail to parse, for
\* different reasons, and has returned the error of the calculated header
C33_Witness ==
  /\ fn = "Verify" /\ ret.done
  /\ ParseHeaderString(arg.calculated).err = "parse date"
  /\ ParseHeaderString(arg.challenge).err = "malformed header string"
  /\ ret.err = "parse calculated header string"
  /\ ~ret.ok

\* C33 witness of the other error: only the challenge fails to parse
C33_ChallengeErrorSeen ==
  /\ fn = "Verify" /\ ret.done
  /\ ParseHeaderString(arg.calculated).err = "nil"
  /\ ParseHeaderString(arg.challenge).err = "decode counter"
  /\ ret.err = "parse challenge header string"

-----------------------------------------------------------------------------
(* C34 *)

\* the two headers agree in version, bits, date, resource and random
C34_SameChallenge(g, h) ==
  /\ g.version = h.version
  /\ g.bits = h.bits
  /\ g.date = h.date
  /\ g.resource = h.resource
  /\ g.random = h.random

\* C34: the header Calculate works on differs from the parsed challenge in
\* the counter at most, during the loop and when it returns; the string it
\* returns parses to such a header, and Verify of that string against the
\* challenge does not report a mismatch
C34_OnlyCounterChanges ==
  LET p == ParseHeaderString(challengeIn) IN
    /\ (ppc = "mine") => C34_SameChallenge(header, p.h)
    /\ (ppc \in {"verify", "done"} /\ calcRes.err = "nil") =>
         /\ C34_SameChallenge(header, p.h)
         /\ ParseHeaderString(calcRes.str).err = "nil"
         /\ C34_SameChallenge(ParseHeaderString(calcRes.str).h, p.h)
    /\ (ppc = "done" /\ calcRes.err = "nil") =>
         verRes.err # "calculated header doesn't match the challenge"

\* C34 witness: Calculate returned after at least one increment of the
\* counter; its header has another counter than the challenge and the same
\* other fields, and Verify reported no error
C34_Witness ==
  LET p == ParseHeaderString(challengeIn) IN
    /\ ppc = "done" /\ calcRes.err = "nil" /\ iters >= 1
    /\ header.counter # p.h.counter
    /\ C34_SameChallenge(header, p.h)
    /\ verRes.err = "nil"

-----------------------------------------------------------------------------
(* C35 *)

\* C35: for every challenge that ParseHeaderString accepts, the bit test
\* that Calculate runs on the digest stays inside the 32 bytes of the digest:
\* no index or slice bound of checkBits is out of range
C35_BitTestStaysInDigest ==
  (ParseHeaderString(challengeIn).err = "nil") => ppc # "panic"

\* C35, the crash: ParseHeaderString accepted a header with bits 264, and
\* the first bit test of Calculate slices the digest at hash[:33]
C35_SliceBeyondDigest ==
  LET p == ParseHeaderString(challengeIn) IN
    /\ ppc = "panic"
    /\ p.err = "nil"
    /\ p.h.bits = <<2, 6, 4>>
    /\ iters = 0
    /\ BitsNat(p.h.bits) \div 8 > DigestLen

\* C35, the crash on negative bits: "-1" is accepted as 2^64 - 1
C35_SliceBeyondDigestNegativeBits ==
  LET p == ParseHeaderString(challengeIn) IN
    /\ ppc = "panic"
    /\ p.err = "nil"
    /\ p.h.bits = MaxUint64

-----------------------------------------------------------------------------
(* C36 *)

\* C36: after the lifetime context is cancelled at most one l.Accept call
\* returns and at most one handler is started; once the loop stands at its
\* select with the context done it does not go on to l.Accept, and once
\* ListenAndServe has returned it takes no step at all
C36_AtMostOneAcceptAfterCancel ==
  /\ lafter <= 1
  /\ hafter <= 1
  /\ (lpc = "select" /\ lcancelled) => ~ENABLED ListenSetDeadline
  /\ (lpc = "returned") => ~ENABLED ListenStep

\* C36 witness: the context was cancelled during an l.Accept that then
\* returned a connection; its handler was started, and ListenAndServe
\* closed the listener and returned without another l.Accept
C36_Witness ==
  /\ lcancelled
  /\ lafter = 1 /\ hafter = 1
  /\ Len(handlers) >= 1
  /\ lpc = "returned" /\ lret = "nil" /\ lclosed = 1

=============================================================================
